--------------------------- MODULE ResourceRecords ---------------------------
(***************************************************************************)
(* The server's side of the infrastructure resource forms: the fields that *)
(* a PUT of each type sets in the saved record, and the fields that the    *)
(* editor's GET answers from it.  Both are lists written by hand, apart    *)
(* from the three lists of the forms.  A field is named by its payload     *)
(* key; a reference is set by looking its resource up.                     *)
(***************************************************************************)
EXTENDS ResourceForms

\* What every update sets in the resource itself, whatever its type.
ResourceStored == {"name", "lifecycle_status", "environment", "criticality", "description"}

ServerStored ==
    {"hostname", "fqdn", "purpose", "role", "compute_type", "architecture", "cpu_model",
     "cpu_cores", "ram_mb", "root_disk_gb", "os_family", "distribution", "os_version",
     "kernel_version", "provider_resource_id", "region", "zone", "datacenter",
     "virtualization_type", "hypervisor", "ssh_port", "timezone", "automatic_updates",
     "patch_window", "last_patched_at", "commissioned_at", "decommissioned_at"}
ServerReferences == {"provider_account_resource_id"}
NetworkStored == {"network_type", "provider_network_id", "cidr", "gateway", "region",
                  "vlan_id", "dns_servers"}
NetworkReferences == {"provider_account_resource_id"}
SubnetStored == {"network_resource_id", "cidr", "gateway", "vlan_id", "availability_zone",
                 "purpose"}

InstanceStored ==
    {"engine", "engine_version", "hosting_type", "provider_resource_id", "endpoint", "port",
     "region", "zone", "tls_mode", "high_availability", "replica_count", "backup_enabled",
     "maintenance_window"}
InstanceReferences == {"server_resource_id", "provider_account_resource_id"}
DatabaseStored == {"instance_resource_id", "database_name", "purpose", "default_schema",
                   "charset", "collation"}
ApplicationStored == {"application_type", "owner_team", "primary_language", "framework"}
EnvironmentStored == {"deployment_type", "provider_resource_id", "runtime", "runtime_version",
                      "release_version", "region", "branch_or_ref", "automatic_deployments"}
EnvironmentReferences == {"application_resource_id", "server_resource_id",
                          "provider_account_resource_id"}
RepositoryStored == {"web_url", "clone_url", "provider_repository_id", "owner_name",
                     "repository_name", "default_branch", "visibility", "is_fork"}
RepositoryReferences == {"provider_account_resource_id"}

WebsiteStored == {"website_type", "admin_url", "cms", "cms_version"}
WebsiteReferences == {"hosting_provider_account_resource_id",
                      "cdn_provider_account_resource_id", "waf_provider_account_resource_id"}
EndpointStored == {"url", "role", "is_primary", "redirects_to"}
EndpointReferences == {"website_resource_id", "application_environment_resource_id",
                       "domain_resource_id", "tls_certificate_resource_id"}
DomainStored == {"domain_name", "provider_domain_id", "status", "registered_on", "expires_on",
                 "auto_renew", "transfer_lock_enabled", "privacy_enabled"}
DomainReferences == {"registrar_account_resource_id"}
ZoneStored == {"zone_name", "provider_zone_id", "dnssec_enabled", "is_primary"}
ZoneReferences == {"domain_resource_id", "provider_account_resource_id"}
CertificateStored == {"certificate_type", "issuer", "subject_common_name",
                      "provider_certificate_id", "serial_number", "fingerprint_sha256",
                      "issued_at", "expires_at", "auto_renew"}
CertificateReferences == {"provider_account_resource_id"}

StorageStored == {"storage_type", "provider_account_resource_id", "provider_resource_id",
                  "region", "capacity_gb", "filesystem", "storage_class", "mount_path",
                  "endpoint_url", "encrypted", "retention_notes"}
BackupStored == {"destination_storage_resource_id", "provider_account_resource_id",
                 "backup_type", "schedule", "timezone", "retention_days", "retention_copies",
                 "encrypted", "last_success_at", "last_failure_at", "last_restore_test_at",
                 "recovery_notes"}
\* The sources of a plan are rows of their own, replaced as a set.
SourcesStored == {"source_resource_ids"}
StackStored == {"host_resource_id", "orchestrator", "project_name", "orchestrator_version",
                "compose_path", "working_directory", "management_url", "notes"}
ClusterStored == {"provider_account_resource_id", "distribution", "version", "api_server_url",
                  "management_url", "provider_cluster_id", "region", "node_count",
                  "high_availability", "upgrade_channel", "notes"}
NamespaceStored == {"cluster_resource_id", "namespace", "purpose", "resource_quota_summary"}
WorkloadStored == {"namespace_resource_id", "workload_kind", "workload_name",
                   "replicas_desired", "image_summary", "selector_summary",
                   "service_account", "notes"}
ServiceStored == {"host_resource_id", "manager", "unit_name", "display_name",
                  "expected_state", "startup_type", "executable", "config_path",
                  "working_directory", "log_location", "restart_policy", "notes"}
\* Mutant of JobStored: the list of the update lost the schedule.
ScheduleNotStored == {"host_resource_id", "scheduler", "timezone", "command_summary",
                      "config_path", "working_directory", "run_as", "enabled",
                       "last_success_at", "last_failure_at", "next_run_at", "notes"}
JobStored == {"host_resource_id", "scheduler", "schedule_expression", "timezone",
              "command_summary", "config_path", "working_directory", "run_as", "enabled",
              "last_success_at", "last_failure_at", "next_run_at", "notes"}

AccountStored == {"provider_id", "account_identifier", "tenant_id", "project_id", "portal_url",
                  "default_region", "support_plan", "billing_reference"}

\* What a PUT of each type sets.
Updated(t) ==
    ResourceStored \union
    (CASE t = "server" -> ServerStored \union ServerReferences
       [] t = "network" -> NetworkStored \union NetworkReferences
       [] t = "subnet" -> SubnetStored
       [] t = "database_instance" -> InstanceStored \union InstanceReferences
       [] t = "logical_database" -> DatabaseStored
       [] t = "application" -> ApplicationStored
       [] t = "application_environment" -> EnvironmentStored \union EnvironmentReferences
       [] t = "source_repository" -> RepositoryStored \union RepositoryReferences
       [] t = "website" -> WebsiteStored \union WebsiteReferences
       [] t = "website_endpoint" -> EndpointStored \union EndpointReferences
       [] t = "domain" -> DomainStored \union DomainReferences
       [] t = "dns_zone" -> ZoneStored \union ZoneReferences
       [] t = "tls_certificate" -> CertificateStored \union CertificateReferences
       [] t = "storage" -> StorageStored
       [] t = "backup_plan" -> BackupStored \union SourcesStored
       [] t = "container_stack" -> StackStored [] t = "kubernetes_cluster" -> ClusterStored
       [] t = "kubernetes_namespace" -> NamespaceStored
       [] t = "kubernetes_workload" -> WorkloadStored
       [] t = "system_service" -> ServiceStored [] t = "scheduled_job" -> JobStored
       [] t = "provider_account" -> AccountStored
       [] OTHER -> {})

---------------------------------------------------------------------------
\* What the editor's GET answers.

ResourceAnswered == {"name", "lifecycle_status", "environment", "criticality", "description"}

ServerAnswered ==
    {"hostname", "fqdn", "purpose", "role", "compute_type", "architecture", "cpu_model",
     "cpu_cores", "ram_mb", "root_disk_gb", "os_family", "distribution", "os_version",
     "kernel_version", "provider_account_resource_id", "provider_resource_id", "region",
     "zone", "datacenter", "virtualization_type", "hypervisor", "ssh_port", "timezone",
     "automatic_updates", "patch_window", "last_patched_at", "commissioned_at",
     "decommissioned_at"}
NetworkAnswered ==
    {"network_type", "provider_account_resource_id", "provider_network_id", "cidr",
     "gateway", "region", "vlan_id", "dns_servers"}
SubnetAnswered ==
    {"network_resource_id", "cidr", "gateway", "vlan_id", "availability_zone", "purpose"}

InstanceAnswered ==
    {"engine", "engine_version", "hosting_type", "server_resource_id",
     "provider_account_resource_id", "provider_resource_id", "endpoint", "port", "region",
     "zone", "tls_mode", "high_availability", "replica_count", "backup_enabled",
     "maintenance_window"}
DatabaseAnswered ==
    {"instance_resource_id", "database_name", "purpose", "default_schema", "charset",
     "collation"}
ApplicationAnswered == {"application_type", "owner_team", "primary_language", "framework"}
EnvironmentAnswered ==
    {"application_resource_id", "deployment_type", "server_resource_id",
     "provider_account_resource_id", "provider_resource_id", "runtime", "runtime_version",
     "release_version", "region", "branch_or_ref", "automatic_deployments"}
RepositoryAnswered ==
    {"provider_account_resource_id", "web_url", "clone_url", "provider_repository_id",
     "owner_name", "repository_name", "default_branch", "visibility", "is_fork"}

WebsiteAnswered ==
    {"website_type", "admin_url", "cms", "cms_version",
     "hosting_provider_account_resource_id", "cdn_provider_account_resource_id",
     "waf_provider_account_resource_id"}
EndpointAnswered ==
    {"website_resource_id", "application_environment_resource_id", "domain_resource_id",
     "tls_certificate_resource_id", "url", "role", "is_primary", "redirects_to"}
DomainAnswered ==
    {"domain_name", "registrar_account_resource_id", "provider_domain_id", "status",
     "registered_on", "expires_on", "auto_renew", "transfer_lock_enabled",
     "privacy_enabled"}
ZoneAnswered ==
    {"domain_resource_id", "provider_account_resource_id", "zone_name", "provider_zone_id",
     "dnssec_enabled", "is_primary"}
CertificateAnswered ==
    {"provider_account_resource_id", "certificate_type", "issuer", "subject_common_name",
     "provider_certificate_id", "serial_number", "fingerprint_sha256", "issued_at",
     "expires_at", "auto_renew"}

StorageAnswered ==
    {"storage_type", "provider_account_resource_id", "provider_resource_id", "region",
     "capacity_gb", "filesystem", "storage_class", "mount_path", "endpoint_url",
     "encrypted", "retention_notes"}
BackupAnswered ==
    {"backup_type", "schedule", "timezone", "retention_days", "retention_copies",
     "destination_storage_resource_id", "provider_account_resource_id", "encrypted",
     "last_success_at", "last_failure_at", "last_restore_test_at", "source_resource_ids",
     "recovery_notes"}
StackAnswered ==
    {"orchestrator", "host_resource_id", "project_name", "orchestrator_version",
     "compose_path", "working_directory", "management_url", "notes"}
ClusterAnswered ==
    {"provider_account_resource_id", "distribution", "version", "api_server_url",
     "management_url", "provider_cluster_id", "region", "node_count", "high_availability",
     "upgrade_channel", "notes"}
NamespaceAnswered ==
    {"cluster_resource_id", "namespace", "purpose", "resource_quota_summary"}
WorkloadAnswered ==
    {"namespace_resource_id", "workload_kind", "workload_name", "replicas_desired",
     "image_summary", "selector_summary", "service_account", "notes"}
ServiceAnswered ==
    {"host_resource_id", "manager", "unit_name", "display_name", "expected_state",
     "startup_type", "executable", "config_path", "working_directory", "log_location",
     "restart_policy", "notes"}
JobAnswered ==
    {"scheduler", "host_resource_id", "schedule_expression", "timezone", "command_summary",
     "config_path", "working_directory", "run_as", "enabled", "last_success_at",
     "last_failure_at", "next_run_at", "notes"}

AccountAnswered == {"provider_id", "account_identifier", "tenant_id", "project_id", "portal_url",
                    "default_region", "support_plan", "billing_reference"}

Answered(t) ==
    ResourceAnswered \union
    (CASE t = "server" -> ServerAnswered [] t = "network" -> NetworkAnswered
       [] t = "subnet" -> SubnetAnswered
       [] t = "database_instance" -> InstanceAnswered
       [] t = "logical_database" -> DatabaseAnswered
       [] t = "application" -> ApplicationAnswered
       [] t = "application_environment" -> EnvironmentAnswered
       [] t = "source_repository" -> RepositoryAnswered
       [] t = "website" -> WebsiteAnswered [] t = "website_endpoint" -> EndpointAnswered
       [] t = "domain" -> DomainAnswered [] t = "dns_zone" -> ZoneAnswered
       [] t = "tls_certificate" -> CertificateAnswered
       [] t = "storage" -> StorageAnswered [] t = "backup_plan" -> BackupAnswered
       [] t = "container_stack" -> StackAnswered [] t = "kubernetes_cluster" -> ClusterAnswered
       [] t = "kubernetes_namespace" -> NamespaceAnswered
       [] t = "kubernetes_workload" -> WorkloadAnswered
       [] t = "system_service" -> ServiceAnswered [] t = "scheduled_job" -> JobAnswered
       [] t = "provider_account" -> AccountAnswered
       [] OTHER -> {})
=============================================================================
