---------------------------- MODULE ContentEditing ----------------------------
(***************************************************************************)
(* The public website's content in the staff console: blog posts, their    *)
(* categories and tags, FAQs and their categories, the portfolio and the   *)
(* testimonials.  Each page loads its lists once, then keeps them by what  *)
(* its own requests answer; it shows a create form, an edit form and, for  *)
(* some kinds, image editors that save at once.  One field coFld of one    *)
(* kind is followed; "image" stands for the image of an item.  What the    *)
(* server sets and answers of each kind is in ContentRecords.              *)
(***************************************************************************)
EXTENDS Naturals, FiniteSets, ContentRecords

CONSTANTS Items, NoItem, MaxRequests

ASSUME ContentBounds == NoItem \notin Items /\ MaxRequests \in Nat

VARIABLES
    coKind, coFld,
    coStore,     \* the server's value of the field for every item, or "gone"
    coShown,     \* the value in the page's list, or "gone"
    coLoad,      \* "loading", "loaded", "failed", and what the load read
    coNew,       \* the create form's value of the field
    coEdit,      \* the edit form
    coSaving, coCalls, coRequests,
    coLost       \* why the page may no longer know the server: the answer of a
                 \* save was lost, or a row was written back as it was read

coWhich == <<coKind, coFld>>
coVars == <<coWhich, coStore, coShown, coLoad, coNew, coEdit, coSaving, coCalls, coRequests,
            coLost>>

ContentKinds == {"post", "category", "tag", "faq", "faq_category", "portfolio", "testimonial"}

PostFields == {"featured_image_alt", "published_at", "title", "slug", "excerpt", "content",
               "author", "published", "featured", "category_ids", "tag_ids", "brand_ids",
               "meta_description", "meta_keywords"}
CategoryFields == {"name", "slug", "description", "brand_ids"}
TagFields == {"name", "slug", "brand_ids"}
FAQFields == {"published", "service_slugs", "question", "answer", "category_id", "order",
              "brand_ids"}
FAQCategoryFields == {"name", "slug", "description", "order", "brand_ids"}
PortfolioFields == {"published", "image_alt", "featured_image_alt", "meta_description",
                    "service_slugs", "title", "slug", "description", "challenge", "solution",
                    "results", "technologies", "project_url", "github_url", "featured",
                    "brand_ids"}
TestimonialFields == {"published", "image_alt", "quote", "client_name", "company", "job_title",
                      "rating", "featured", "brand_ids"}

\* A form is sent as it is: its fields are those of its state.
ContentSent(k) == CASE k = "post" -> PostFields [] k = "category" -> CategoryFields
    [] k = "tag" -> TagFields [] k = "faq" -> FAQFields [] k = "faq_category" -> FAQCategoryFields
    [] k = "portfolio" -> PortfolioFields [] OTHER -> TestimonialFields

Images == {"post", "portfolio", "testimonial"}

Related == {"category_ids", "tag_ids", "brand_ids"}

\* What the Edit button of a row sets from the row.
PostFilled == {"featured_image_alt", "published_at", "title", "slug", "excerpt", "content",
               "author", "published", "featured", "category_ids", "tag_ids", "brand_ids",
               "meta_description", "meta_keywords"}
CategoryFilled == {"name", "slug", "description", "brand_ids"}
TagFilled == {"name", "slug", "brand_ids"}
FAQFilled == {"published", "service_slugs", "question", "answer", "category_id", "order",
              "brand_ids"}
FAQCategoryFilled == {"name", "slug", "description", "order", "brand_ids"}
PortfolioFilled == {"published", "image_alt", "featured_image_alt", "meta_description",
                    "service_slugs", "title", "slug", "description", "challenge", "solution",
                    "results", "technologies", "project_url", "github_url", "featured",
                    "brand_ids"}
TestimonialFilled == {"published", "image_alt", "quote", "client_name", "company", "job_title",
                      "rating", "featured", "brand_ids"}

ContentFilled(k) == CASE k = "post" -> PostFilled [] k = "category" -> CategoryFilled
    [] k = "tag" -> TagFilled [] k = "faq" -> FAQFilled [] k = "faq_category" -> FAQCategoryFilled
    [] k = "portfolio" -> PortfolioFilled [] OTHER -> TestimonialFilled

\* The inputs of the create form and of the edit form.
PostTextInputs == {"title", "slug", "excerpt", "content", "featured_image_alt", "published_at",
                   "author"}
PostChoiceInputs == {"category_ids", "tag_ids", "brand_ids", "meta_description", "meta_keywords",
                     "published", "featured"}
CategoryCreateInputs == {"name", "slug", "description", "brand_ids"}
CategoryEditInputs == {"name", "slug", "description", "brand_ids"}
TagCreateInputs == {"name", "slug", "brand_ids"}
TagEditInputs == {"name", "slug", "brand_ids"}
FAQCreateInputs == {"question", "answer", "category_id", "order", "service_slugs", "published",
                    "brand_ids"}
FAQEditInputs == {"question", "answer", "category_id", "order", "service_slugs", "published",
                  "brand_ids"}
FAQCategoryCreateInputs == {"name", "slug", "description", "order", "brand_ids"}
FAQCategoryEditInputs == {"name", "slug", "description", "order", "brand_ids"}
PortfolioTextInputs == {"title", "slug", "description", "challenge", "solution", "results",
                        "technologies", "project_url", "github_url"}
PortfolioSearchInputs == {"meta_description", "service_slugs", "image_alt",
                          "featured_image_alt", "published", "brand_ids", "featured"}
TestimonialCreateInputs == {"quote", "client_name", "company", "job_title", "rating",
                            "image_alt", "published", "brand_ids", "featured"}
TestimonialEditInputs == {"quote", "client_name", "company", "job_title", "rating",
                          "image_alt", "published", "brand_ids", "featured"}

CreateInputs(k) == CASE k = "post" -> PostTextInputs \union PostChoiceInputs
    [] k = "category" -> CategoryCreateInputs [] k = "tag" -> TagCreateInputs
    [] k = "faq" -> FAQCreateInputs [] k = "faq_category" -> FAQCategoryCreateInputs
    [] k = "portfolio" -> PortfolioTextInputs \union PortfolioSearchInputs
    [] OTHER -> TestimonialCreateInputs
EditInputs(k) == CASE k = "category" -> CategoryEditInputs [] k = "tag" -> TagEditInputs
    [] k = "faq" -> FAQEditInputs [] k = "faq_category" -> FAQCategoryEditInputs
    [] k = "testimonial" -> TestimonialEditInputs [] OTHER -> CreateInputs(k)

\* The buttons of a listed row: disabled at no time, a save or not.
PostRows == {"edit", "delete"}
CategoryRows == {"edit", "delete"}
TagRows == {"edit", "delete"}
FAQRows == {"edit", "delete"}
FAQCategoryRows == {"edit", "delete"}
PortfolioRows == {"edit", "delete"}
TestimonialRows == {"edit", "delete"}

RowButtons(k) == CASE k = "post" -> PostRows [] k = "category" -> CategoryRows
    [] k = "tag" -> TagRows [] k = "faq" -> FAQRows [] k = "faq_category" -> FAQCategoryRows
    [] k = "portfolio" -> PortfolioRows [] OTHER -> TestimonialRows

\* "late": a choice of brands that includes one the page did not load, which
\* the brand selector, with a list of its own, offers; "cut": the same without
\* that brand; "default": the author or the instant the server fills in itself.
ContentValues == {"kept", "typed", "blank", "late", "cut", "default"}

ContentCall == [op : {"post", "put", "delete", "image"}, target : Items \union {NoItem},
                from : Items \union {NoItem}, val : ContentValues, base : ContentValues,
                touched : BOOLEAN, mine : BOOLEAN, at : {"sent", "read", "saved"},
                held : ContentValues]
NoEdit == [target |-> NoItem, from |-> NoItem, val |-> "blank", base |-> "blank",
           touched |-> FALSE]

ContentTypeOK ==
    /\ coKind \in ContentKinds
    /\ coFld \in ContentSent(coKind) \union {"image"}
    /\ coStore \in [Items -> ContentValues \union {"gone"}]
    /\ coShown \in [Items -> ContentValues \union {"gone"}]
    /\ coLoad \in {"loading", "loaded", "failed"}
    /\ coNew \in ContentValues
    /\ coEdit \in [target : Items \union {NoItem}, from : Items \union {NoItem},
                   val : ContentValues, base : ContentValues, touched : BOOLEAN]
    /\ coSaving \in BOOLEAN /\ coCalls \subseteq ContentCall
    /\ coRequests \in 0..MaxRequests /\ coLost \subseteq {"answer", "row"}

ContentInit ==
    /\ coKind \in ContentKinds
    /\ coFld \in ContentSent(coKind) \union (IF coKind \in Images THEN {"image"} ELSE {})
    /\ \E absent \in Items :
          coStore = [i \in Items |-> IF i = absent THEN "gone" ELSE "kept"]
    /\ coShown = [i \in Items |-> "gone"] /\ coLoad = "loading"
    /\ coNew = "blank" /\ coEdit = NoEdit
    /\ coSaving = FALSE /\ coCalls = {} /\ coRequests = 0 /\ coLost = {}

\* The list, and every answer, carry what the response of the kind names; an
\* image has a url of its own.
InAnswer(v) == IF v = "gone" \/ coFld \in ListedBy[coKind] \union {"image"} THEN v ELSE "blank"

\* The page's own requests wait for the load: nothing is listed before it, and
\* an item that is created while it runs is outside this model.
ContentLoaded ==
    /\ coLoad = "loading" /\ coLoad' = "loaded"
    /\ coShown' = [i \in Items |-> InAnswer(coStore[i])]
    /\ UNCHANGED <<coWhich, coStore, coNew, coEdit, coSaving, coCalls, coRequests, coLost>>

ContentLoadFails ==
    /\ coLoad = "loading" /\ coLoad' = "failed"
    /\ UNCHANGED <<coWhich, coStore, coShown, coNew, coEdit, coSaving, coCalls, coRequests,
                   coLost>>

---------------------------------------------------------------------------
\* The two forms.

Typed == IF coFld = "brand_ids" THEN {"typed", "late"} ELSE {"typed"}

TypeNew == \E v \in Typed :
    /\ coLoad # "loading" /\ coFld \in CreateInputs(coKind)
    /\ coFld = "brand_ids" => ~coSaving
    /\ coNew' = v
    /\ UNCHANGED <<coWhich, coStore, coShown, coLoad, coEdit, coSaving, coCalls, coRequests,
                   coLost>>

\* A post's publication is shown in local time and sent as an instant; the
\* brands of an item are found among those the page loaded.
FromItem(i) ==
    IF coFld \notin ContentFilled(coKind) \union {"image"} THEN "blank"
    ELSE IF coShown[i] = "late" THEN "cut" ELSE coShown[i]

\* An image editor is mounted anew for another item.
Unanswered == {[c EXCEPT !.mine = FALSE] : c \in coCalls}
Remounted(i) == IF coFld = "image" /\ i # coEdit.target THEN Unanswered ELSE coCalls

EditItem == \E i \in Items :
    /\ coShown[i] # "gone" /\ "edit" \in RowButtons(coKind)
    /\ coEdit' = IF coFld = "image" /\ i = coEdit.target THEN coEdit
                 ELSE [target |-> i, from |-> i, val |-> FromItem(i), base |-> coShown[i],
                       touched |-> FALSE]
    /\ coCalls' = Remounted(i)
    /\ UNCHANGED <<coWhich, coStore, coShown, coLoad, coNew, coSaving, coRequests, coLost>>

TypeEdit == \E v \in Typed :
    /\ coEdit.target # NoItem /\ coFld \in EditInputs(coKind)
    /\ coFld = "brand_ids" => ~coSaving
    /\ coEdit' = [coEdit EXCEPT !.val = v, !.touched = TRUE]
    /\ UNCHANGED <<coWhich, coStore, coShown, coLoad, coNew, coSaving, coCalls, coRequests,
                   coLost>>

CancelEdit ==
    /\ coEdit.target # NoItem
    /\ coEdit' = NoEdit /\ coCalls' = Remounted(NoItem)
    /\ UNCHANGED <<coWhich, coStore, coShown, coLoad, coNew, coSaving, coRequests, coLost>>

\* Both forms need a brand; one save at a time for the page.
Sends(call) ==
    /\ coRequests < MaxRequests /\ coRequests' = coRequests + 1
    /\ coCalls' = coCalls \union {call}

SaveNew ==
    /\ coLoad # "loading" /\ ~coSaving /\ coSaving' = TRUE
    /\ coFld = "brand_ids" => coNew # "blank"
    /\ Sends([op |-> "post", target |-> NoItem, from |-> NoItem, val |-> coNew,
              base |-> "blank", touched |-> TRUE, mine |-> TRUE, at |-> "sent", held |-> "blank"])
    /\ UNCHANGED <<coWhich, coStore, coShown, coLoad, coNew, coEdit, coLost>>

SaveEdit ==
    /\ coEdit.target # NoItem /\ ~coSaving /\ coSaving' = TRUE
    /\ Sends([op |-> "put", target |-> coEdit.target, from |-> coEdit.from,
              val |-> coEdit.val, base |-> coEdit.base, touched |-> coEdit.touched,
              mine |-> TRUE, at |-> "sent", held |-> "blank"])
    /\ UNCHANGED <<coWhich, coStore, coShown, coLoad, coNew, coEdit, coLost>>

---------------------------------------------------------------------------
\* The answers.

\* A post without an author is signed by the company; one that is published
\* without an instant keeps its own or is published now, and one that is not
\* published has none.
PublishedAt(c) ==
    {"blank", IF c.val # "blank" THEN c.val
              ELSE IF c.held # "blank" THEN c.held ELSE "default"}

\* What an accepted save leaves in its item: a PUT writes back the row that it
\* read with what it sets in it, an image request the row with the new image.
\* The categories, tags and brands of an item are no part of its row: a PUT
\* sets them, and an image request leaves them alone.
Sets(c) ==
    IF coFld = "author" /\ c.val = "blank" THEN {"default"}
    ELSE IF coFld = "published_at" THEN PublishedAt(c) ELSE {c.val}

LeftBy(c) ==
    CASE c.op = "post" -> IF coFld \in MadeBy[coKind] THEN Sets(c) ELSE {"blank"}
      [] c.op = "put" -> IF coFld \in PutBy[coKind] THEN Sets(c) ELSE {c.held}
      [] OTHER -> IF coFld = "image" THEN {c.val}
                  ELSE IF coFld \notin Related THEN {c.held}
                  ELSE IF coStore[c.target] = "gone" THEN {"blank"} ELSE {coStore[c.target]}

Stored(c, i) == \E v \in LeftBy(c) : coStore' = [coStore EXCEPT ![i] = v]

\* The new item is put in the list and the create form is cleared, with what
\* was typed in it since.
Posted == \E c \in coCalls, i \in Items :
    /\ c.op = "post" /\ coStore[i] = "gone" /\ coShown[i] = "gone"
    /\ Stored(c, i) /\ coShown' = [coShown EXCEPT ![i] = InAnswer(coStore'[i])]
    /\ coNew' = "blank" /\ coSaving' = FALSE /\ coCalls' = coCalls \ {c}
    /\ UNCHANGED <<coWhich, coLoad, coEdit, coRequests, coLost>>

\* A request for an item reads its row first; nothing locks the row until it
\* is written, and an image is converted in between.
ServerReads == \E c \in coCalls :
    /\ c.op \in {"put", "image"} /\ c.at = "sent" /\ coStore[c.target] # "gone"
    /\ coCalls' = (coCalls \ {c}) \union {[c EXCEPT !.at = "read", !.held = coStore[c.target]]}
    /\ UNCHANGED <<coWhich, coStore, coShown, coLoad, coNew, coEdit, coSaving, coRequests, coLost>>

\* Saving a row that was deleted meanwhile inserts it again.
Revived(c) == IF coStore[c.target] = "gone" THEN coLost \union {"row"} ELSE coLost

\* The server commits a PUT, with the answer it will give, before it answers;
\* the item may be deleted in between.
PutStored == \E c \in coCalls :
    /\ c.op = "put" /\ c.at = "read"
    /\ Stored(c, c.target) /\ coLost' = Revived(c)
    /\ coCalls' = (coCalls \ {c})
           \union {[c EXCEPT !.at = "saved", !.held = InAnswer(coStore'[c.target])]}
    /\ UNCHANGED <<coWhich, coShown, coLoad, coNew, coEdit, coSaving, coRequests>>

\* Mutant of Put1: the item is put in the list, listed or not.
PutBack(c) == [coShown EXCEPT ![c.target] = c.held]

\* The answer replaces the item where it is listed, and closes the edit form,
\* whichever item it is open for by then.
Put1(c) == IF coShown[c.target] = "gone" THEN coShown
           ELSE [coShown EXCEPT ![c.target] = c.held]

PutAnswered == \E c \in coCalls :
    /\ c.op = "put" /\ c.at = "saved"
    /\ coShown' = Put1(c)
    /\ coEdit' = NoEdit /\ coSaving' = FALSE
    /\ coCalls' = Remounted(NoItem) \ {c, [c EXCEPT !.mine = FALSE]}
    /\ UNCHANGED <<coWhich, coStore, coLoad, coNew, coRequests, coLost>>

\* Refused (the item may be gone), or accepted with its answer lost.
SaveRefused == \E c \in coCalls :
    /\ c.op \in {"post", "put"} /\ coCalls' = coCalls \ {c} /\ coSaving' = FALSE
    /\ \/ c.at # "saved" /\ UNCHANGED <<coStore, coLost>>
       \/ c.at = "saved" /\ coLost' = coLost \union {"answer"} /\ UNCHANGED coStore
       \/ /\ c.op = "post" /\ coLost' = coLost \union {"answer"}
          /\ \E i \in Items : /\ coStore[i] = "gone" /\ coShown[i] = "gone"
                              /\ Stored(c, i)
    /\ UNCHANGED <<coWhich, coShown, coLoad, coNew, coEdit, coRequests>>

\* Delete does not close the edit form of the item.
DeleteItem == \E i \in Items :
    /\ coShown[i] # "gone" /\ "delete" \in RowButtons(coKind)
    /\ Sends([op |-> "delete", target |-> i, from |-> i, val |-> "blank", base |-> "blank",
              touched |-> TRUE, mine |-> TRUE, at |-> "sent", held |-> "blank"])
    /\ UNCHANGED <<coWhich, coStore, coShown, coLoad, coNew, coEdit, coSaving, coLost>>

Deletes(c) == coStore' = [coStore EXCEPT ![c.target] = "gone"]

Deleted == \E c \in coCalls :
    /\ c.op = "delete" /\ coStore[c.target] # "gone" /\ Deletes(c)
    /\ coShown' = [coShown EXCEPT ![c.target] = "gone"]
    /\ coCalls' = coCalls \ {c}
    /\ UNCHANGED <<coWhich, coLoad, coNew, coEdit, coSaving, coRequests, coLost>>

DeleteFails == \E c \in coCalls :
    /\ c.op = "delete" /\ coCalls' = coCalls \ {c}
    /\ \/ UNCHANGED <<coStore, coLost>>
       \/ coLost' = coLost \union {"answer"} /\ Deletes(c)
    /\ UNCHANGED <<coWhich, coShown, coLoad, coNew, coEdit, coSaving, coRequests>>

\* The image editors, beside the form and its Save button: an upload or a
\* removal at a time for each, kept in its own url; the page's list is not
\* told.  Where a field of the form is followed, the editors' own state is not
\* (a form of the portfolio has two, and a reopened form has new ones).
ChangeImage == \E v \in {"typed", "blank"} :
    /\ coKind \in Images /\ coEdit.target # NoItem
    /\ IF coFld = "image"
       THEN (~\E c \in coCalls : c.op = "image" /\ c.mine) /\ (v = "blank" => coEdit.val # "blank")
       ELSE v = "blank"
    /\ Sends([op |-> "image", target |-> coEdit.target, from |-> coEdit.target, val |-> v,
              base |-> "blank", touched |-> TRUE, mine |-> TRUE, at |-> "sent", held |-> "blank"])
    /\ UNCHANGED <<coWhich, coStore, coShown, coLoad, coNew, coEdit, coSaving, coLost>>

ImageSaved(c) ==
    /\ c.at = "read" /\ Stored(c, c.target)
    /\ coLost' = IF coFld # "image" /\ coStore' # coStore THEN coLost \union {"row"}
                 ELSE Revived(c)

ImageChanged == \E c \in coCalls :
    /\ c.op = "image" /\ ImageSaved(c)
    /\ coEdit' = IF c.mine /\ coFld = "image"
                 THEN [coEdit EXCEPT !.val = c.val, !.from = c.target] ELSE coEdit
    /\ coCalls' = coCalls \ {c}
    /\ UNCHANGED <<coWhich, coShown, coLoad, coNew, coSaving, coRequests>>

\* Refused, or changed with the answer lost.
ImageRefused == \E c \in coCalls :
    /\ c.op = "image" /\ coCalls' = coCalls \ {c}
    /\ UNCHANGED <<coStore, coLost>> \/ ImageSaved(c)
    /\ UNCHANGED <<coWhich, coShown, coLoad, coNew, coEdit, coSaving, coRequests>>

ContentNext == ContentLoaded \/ ContentLoadFails \/ TypeNew \/ EditItem \/ TypeEdit
    \/ CancelEdit \/ SaveNew \/ SaveEdit \/ Posted \/ ServerReads \/ PutStored \/ PutAnswered
    \/ SaveRefused \/ DeleteItem \/ Deleted \/ DeleteFails \/ ChangeImage \/ ImageChanged \/ ImageRefused

ContentSpec == ContentInit /\ [][ContentNext]_coVars

---------------------------------------------------------------------------
\* Properties.

\* A PUT carries what its own item held, in every field the user left alone,
\* through any order of Edit, Cancel, answers and deletions; the publication
\* of a post survives its trip through local time, to the minute.  (A brand
\* that the page did not load is dropped.)
ContentSentBack ==
    \A c \in coCalls : c.op = "put" =>
        c.from = c.target /\ (~c.touched => c.val = c.base \/ c.base = "late" \/ coFld = "image")

\* What the server holds of what was sent: the value itself, but for an author
\* left blank and the instant of a post that is not published or names none.
Holds(sent, held) ==
    \/ held = sent
    \/ coFld = "author" /\ sent = "blank"
    \/ coFld = "published_at" /\ "blank" \in {sent, held}

\* While an accepted edit waits for its answer, its item holds what the form
\* sent in every field of every kind, unless it was deleted meanwhile, or its
\* row was written back by a request that had read it before.
EditReachesItem ==
    \A c \in coCalls : c.op = "put" /\ c.at = "saved" /\ coFld # "image" /\ "row" \notin coLost =>
        coStore[c.target] = "gone" \/ Holds(c.val, coStore[c.target])

\* A new item holds what the create form sent, in every field of every kind;
\* another way for an item to appear is that a deleted row is written back.
DraftBecomesItem ==
    [][\A i \in Items : coStore[i] = "gone" /\ coStore'[i] # "gone" =>
          \/ "row" \in coLost'
          \/ \E c \in coCalls :
                c.op = "post" /\ (coFld = "image" \/ Holds(c.val, coStore'[i]))]_coVars

\* A page whose requests were all answered lists exactly what the server
\* keeps, though it never loads again: each answer is put in the right place,
\* and one that arrives after a deletion does not bring the item back.  (No
\* answer was lost, and no request wrote back a row that had changed since.)
ContentListTrue ==
    coCalls = {} /\ coLoad = "loaded" /\ coLost = {} /\ coFld # "image" => coShown = coStore

\* The image editor never shows the image of another item.
ImageIsItsOwn == coEdit.target # NoItem => coEdit.from = coEdit.target
=============================================================================
