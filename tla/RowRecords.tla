------------------------------ MODULE RowRecords ------------------------------
(***************************************************************************)
(* The server's side of the cards of NestedRecords: for each kind of row   *)
(* the fields its POST makes it with, the fields its PUT or PATCH sets in  *)
(* it, and the fields its list answers, each read from its own view and    *)
(* named as the card names them.  Texts are stored without the white space *)
(* around them.  The user may see what a row refers to (a link to a        *)
(* resource the user may not see is answered as none, or hides its row).   *)
(***************************************************************************)

ContainerMade == {"name", "image", "replicas", "ports", "volumes", "healthcheck",
                  "restart_policy", "environment_notes"}
ContainerTaken == {"name", "image", "replicas", "ports", "volumes", "healthcheck",
                   "restart_policy", "environment_notes"}
ContainerListed == {"name", "image", "replicas", "ports", "volumes", "healthcheck",
                    "restart_policy", "environment_notes"}

ServiceMade == {"workload", "name", "service_type", "cluster_ip", "external_hostname", "ports"}
ServiceTaken == {"workload", "name", "service_type", "cluster_ip", "external_hostname", "ports"}
ServiceListed == {"name", "service_type", "workload", "cluster_ip", "external_hostname", "ports"}

IngressMade == {"name", "ingress_class", "hosts", "tls_enabled", "target_service", "notes"}
IngressTaken == {"name", "ingress_class", "hosts", "tls_enabled", "target_service", "notes"}
IngressListed == {"name", "ingress_class", "hosts", "tls_enabled", "target_service", "notes"}

HelmMade == {"name", "chart", "chart_version", "app_version", "repository_url", "status",
             "values_summary"}
HelmTaken == {"name", "chart", "chart_version", "app_version", "repository_url", "status",
              "values_summary"}
\* Mutant of HelmListed: the list leaves the summary of the values out.
SummaryNotListed == {"name", "chart", "chart_version", "app_version", "repository_url", "status"}
HelmListed == {"name", "chart", "chart_version", "app_version", "repository_url", "status",
               "values_summary"}

VolumeMade == {"name", "storage_class", "capacity_gb", "access_modes", "volume_name",
               "backing_storage", "notes"}
VolumeTaken == {"name", "storage_class", "capacity_gb", "access_modes", "volume_name",
                "backing_storage", "notes"}
VolumeListed == {"name", "storage_class", "capacity_gb", "access_modes", "volume_name",
                 "backing_storage", "notes"}

\* An endpoint is a resource of its own: its name is the resource's.
EndpointSet == {"url", "role", "is_primary", "redirects_to"}
EndpointMade == EndpointSet \union {"name", "application_environment", "domain", "certificate"}
EndpointTaken == EndpointSet \union {"name", "application_environment", "domain", "certificate"}
EndpointListed == {"name", "application_environment", "domain", "certificate", "url", "role",
                   "is_primary", "redirects_to"}

\* The create and the update of a DNS record share what they set.
\* Mutant of DNSSet: the port of an SRV record is not written.
PortNotSet == {"name", "record_type", "value", "ttl", "priority", "weight", "proxied",
               "provider_record_id"}
DNSSet == {"name", "record_type", "value", "ttl", "priority", "weight", "port", "proxied",
           "provider_record_id"}
DNSMade == DNSSet
DNSTaken == DNSSet
DNSListed == {"name", "record_type", "value", "ttl", "priority", "weight", "port", "proxied",
              "provider_record_id"}

TLSMade == {"domain", "is_primary"}
TLSTaken == {"domain", "is_primary"}
TLSListed == {"domain", "is_primary"}

InterfaceMade == {"name", "mac", "network", "subnet", "mtu", "description"}
InterfaceTaken == {"name", "mac", "network", "subnet", "mtu", "description"}
InterfaceListed == {"name", "mac", "network", "subnet", "mtu", "description"}
AddressMade == {"interface", "address", "scope", "is_primary", "ptr", "description"}
AddressTaken == {"interface", "address", "scope", "is_primary", "ptr", "description"}
AddressListed == {"address", "scope", "is_primary", "ptr", "description", "interface"}

LinkMade == {"repository", "role", "path", "notes"}
LinkTaken == {"repository", "role", "path", "notes"}
LinkListed == {"repository", "role", "path", "notes"}

TagRowMade == {"name", "slug", "colour"}
TagRowTaken == {"name", "slug", "colour"}
TagRowListed == {"name", "slug", "colour"}

RelationshipMade == {"target", "type", "label", "notes"}
RelationshipTaken == {"target", "type", "label", "notes"}
RelationshipListed == {"type", "label", "notes", "target"}

\* A vendor is made and changed with every field of its schema.
ProviderSchema == {"name", "slug", "category", "website_url", "support_url", "status_page_url",
                   "documentation_url", "notes", "is_active"}
ProviderMade == ProviderSchema
ProviderTaken == ProviderSchema
ProviderListed == ProviderSchema

RowMadeBy ==
    [container |-> ContainerMade, service |-> ServiceMade, ingress |-> IngressMade,
     helm |-> HelmMade, volume |-> VolumeMade, endpoint |-> EndpointMade, dns |-> DNSMade,
     tls |-> TLSMade, interface |-> InterfaceMade, address |-> AddressMade,
     repository |-> LinkMade, tag |-> TagRowMade, relationship |-> RelationshipMade,
     provider |-> ProviderMade]
RowTakenBy ==
    [container |-> ContainerTaken, service |-> ServiceTaken, ingress |-> IngressTaken,
     helm |-> HelmTaken, volume |-> VolumeTaken, endpoint |-> EndpointTaken, dns |-> DNSTaken,
     tls |-> TLSTaken, interface |-> InterfaceTaken, address |-> AddressTaken,
     repository |-> LinkTaken, tag |-> TagRowTaken, relationship |-> RelationshipTaken,
     provider |-> ProviderTaken]
RowListedBy ==
    [container |-> ContainerListed, service |-> ServiceListed, ingress |-> IngressListed,
     helm |-> HelmListed, volume |-> VolumeListed, endpoint |-> EndpointListed,
     dns |-> DNSListed, tls |-> TLSListed, interface |-> InterfaceListed,
     address |-> AddressListed, repository |-> LinkListed, tag |-> TagRowListed,
     relationship |-> RelationshipListed, provider |-> ProviderListed]
=============================================================================
