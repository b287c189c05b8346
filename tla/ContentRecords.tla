----------------------------- MODULE ContentRecords -----------------------------
(***************************************************************************)
(* The server's side of the content pages: the fields that the POST of     *)
(* each kind gives to a new item, those its PUT sets in an item, and those *)
(* the list and the answers of both carry, each list read from the views   *)
(* and named as the form names it: brand_ids is answered as brand_slugs,   *)
(* the categories and tags of a post and the category of a FAQ as objects. *)
(***************************************************************************)

PostMade == {"featured_image_alt", "title", "slug", "excerpt", "content", "author", "featured",
             "published", "meta_description", "meta_keywords", "published_at",
             "category_ids", "tag_ids", "brand_ids"}
CategoryMade == {"name", "slug", "description", "brand_ids"}
TagMade == {"name", "slug", "brand_ids"}
FAQMade == {"published", "service_slugs", "question", "answer", "category_id", "order",
            "brand_ids"}
FAQCategoryMade == {"name", "slug", "description", "order", "brand_ids"}
PortfolioMade == {"published", "image_alt", "featured_image_alt", "meta_description",
                  "service_slugs", "title", "slug", "description", "challenge", "solution",
                  "results", "technologies", "project_url", "github_url", "featured",
                  "brand_ids"}
\* Mutant of TestimonialMade: a new testimonial is not told its image's text.
ImageTextNotMade == {"published", "quote", "client_name", "company", "job_title", "rating",
                     "featured", "brand_ids"}
TestimonialMade == {"published", "image_alt", "quote", "client_name", "company", "job_title",
                    "rating", "featured", "brand_ids"}

PostTaken == {"title", "slug", "excerpt", "content", "author", "featured", "meta_description",
              "meta_keywords", "published_at", "published", "featured_image_alt",
              "category_ids", "tag_ids", "brand_ids"}
CategoryTaken == {"name", "slug", "description", "brand_ids"}
TagTaken == {"name", "slug", "brand_ids"}
FAQTaken == {"question", "answer", "category_id", "order", "published", "service_slugs",
             "brand_ids"}
FAQCategoryTaken == {"name", "slug", "description", "order", "brand_ids"}
\* Mutant of PortfolioTaken: the fields of publication are set on creation only.
PublicationNotTaken == {"title", "slug", "description", "challenge", "solution", "results",
                        "technologies", "project_url", "github_url", "featured", "image_alt",
                        "featured_image_alt", "meta_description", "brand_ids"}
PortfolioTaken == {"title", "slug", "description", "challenge", "solution", "results",
                   "technologies", "project_url", "github_url", "featured", "published",
                   "image_alt", "featured_image_alt", "meta_description", "service_slugs",
                   "brand_ids"}
TestimonialTaken == {"quote", "client_name", "company", "job_title", "rating", "featured",
                     "published", "image_alt", "brand_ids"}

PostAnswered == {"featured_image_alt", "title", "slug", "excerpt", "content", "author",
                 "published", "featured", "category_ids", "tag_ids", "brand_ids",
                 "meta_description", "meta_keywords", "published_at"}
CategoryAnswered == {"name", "slug", "description", "brand_ids"}
TagAnswered == {"name", "slug", "brand_ids"}
FAQAnswered == {"published", "service_slugs", "question", "answer", "category_id", "order",
                "brand_ids"}
FAQCategoryAnswered == {"name", "slug", "description", "order", "brand_ids"}
PortfolioAnswered == {"published", "image_alt", "featured_image_alt", "meta_description",
                      "service_slugs", "title", "slug", "description", "challenge", "solution",
                      "results", "technologies", "project_url", "github_url", "featured",
                      "brand_ids"}
TestimonialAnswered == {"published", "image_alt", "quote", "client_name", "company",
                        "job_title", "rating", "featured", "brand_ids"}

MadeBy ==
    [post |-> PostMade, category |-> CategoryMade, tag |-> TagMade, faq |-> FAQMade,
     faq_category |-> FAQCategoryMade, portfolio |-> PortfolioMade,
     testimonial |-> TestimonialMade]
PutBy ==
    [post |-> PostTaken, category |-> CategoryTaken, tag |-> TagTaken, faq |-> FAQTaken,
     faq_category |-> FAQCategoryTaken, portfolio |-> PortfolioTaken,
     testimonial |-> TestimonialTaken]
ListedBy ==
    [post |-> PostAnswered, category |-> CategoryAnswered, tag |-> TagAnswered,
     faq |-> FAQAnswered, faq_category |-> FAQCategoryAnswered,
     portfolio |-> PortfolioAnswered, testimonial |-> TestimonialAnswered]
=============================================================================
