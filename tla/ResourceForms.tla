---------------------------- MODULE ResourceForms ----------------------------
(***************************************************************************)
(* The infrastructure resource forms of the staff console, field by field. *)
(* A type of resource has a form of one of five families; a form restores  *)
(* fields of the saved record into its state, offers controls for some of  *)
(* them and sends a payload.  The three lists are written by hand in three *)
(* places of each form; the server replaces the whole record by the        *)
(* payload of a PUT.  Fields are named by their payload key.               *)
(***************************************************************************)
Identity == {"name", "lifecycle_status", "environment", "criticality", "description"}

ComputeTypes == {"server", "network", "subnet"}
DataTypes == {"database_instance", "logical_database", "application",
              "application_environment", "source_repository"}
WebTypes == {"website", "website_endpoint", "domain", "dns_zone", "tls_certificate"}
OperationalTypes == {"storage", "backup_plan", "container_stack", "kubernetes_cluster",
                     "kubernetes_namespace", "kubernetes_workload", "system_service",
                     "scheduled_job"}
BasicTypes == {"api", "bot", "mobile_app", "licence", "email_system", "network_device", "other"}
CatalogueTypes == {"provider_account"} \union BasicTypes

\* RESOURCE_CREATION: the family whose form creates a type.
Family(t) == IF t \in ComputeTypes THEN "compute"
             ELSE IF t \in DataTypes THEN "data"
             ELSE IF t \in WebTypes THEN "web"
             ELSE IF t \in OperationalTypes THEN "operational"
             ELSE "catalogue"

ResourceTypes == ComputeTypes \union DataTypes \union WebTypes \union OperationalTypes
                   \union CatalogueTypes

---------------------------------------------------------------------------
\* What each payload carries besides the identity.

ServerSent == {"hostname", "fqdn", "purpose", "role", "compute_type", "architecture",
               "cpu_model", "cpu_cores", "ram_mb", "root_disk_gb", "os_family",
               "distribution", "os_version", "kernel_version",
               "provider_account_resource_id", "provider_resource_id", "region", "zone",
               "datacenter", "virtualization_type", "hypervisor", "ssh_port", "timezone",
               "automatic_updates", "patch_window", "last_patched_at", "commissioned_at",
               "decommissioned_at"}
NetworkSent == {"network_type", "provider_account_resource_id", "provider_network_id", "cidr",
                "gateway", "region", "vlan_id", "dns_servers"}
SubnetSent == {"network_resource_id", "cidr", "gateway", "vlan_id", "availability_zone",
               "purpose"}

DatabaseInstanceSent == {"engine", "engine_version", "hosting_type", "server_resource_id",
                         "provider_account_resource_id", "provider_resource_id", "endpoint",
                         "port", "region", "zone", "tls_mode", "high_availability",
                         "replica_count", "backup_enabled", "maintenance_window"}
LogicalDatabaseSent == {"instance_resource_id", "database_name", "purpose", "default_schema",
                        "charset", "collation"}
ApplicationSent == {"application_type", "owner_team", "primary_language", "framework"}
EnvironmentSent == {"application_resource_id", "deployment_type", "server_resource_id",
                    "provider_account_resource_id", "provider_resource_id", "runtime",
                    "runtime_version", "release_version", "region", "branch_or_ref",
                    "automatic_deployments"}
RepositorySent == {"provider_account_resource_id", "web_url", "clone_url",
                   "provider_repository_id", "owner_name", "repository_name",
                   "default_branch", "visibility", "is_fork"}

WebsiteSent == {"website_type", "admin_url", "cms", "cms_version",
                "hosting_provider_account_resource_id", "cdn_provider_account_resource_id",
                "waf_provider_account_resource_id"}
EndpointSent == {"website_resource_id", "application_environment_resource_id",
                 "domain_resource_id", "tls_certificate_resource_id", "url", "role",
                 "is_primary", "redirects_to"}
DomainSent == {"domain_name", "registrar_account_resource_id", "provider_domain_id", "status",
               "registered_on", "expires_on", "auto_renew", "transfer_lock_enabled",
               "privacy_enabled"}
ZoneSent == {"domain_resource_id", "provider_account_resource_id", "zone_name",
             "provider_zone_id", "dnssec_enabled", "is_primary"}
CertificateSent == {"provider_account_resource_id", "certificate_type", "issuer",
                    "subject_common_name", "provider_certificate_id", "serial_number",
                    "fingerprint_sha256", "issued_at", "expires_at", "auto_renew"}

StorageSent == {"storage_type", "provider_account_resource_id", "provider_resource_id",
                "region", "capacity_gb", "filesystem", "storage_class", "mount_path",
                "endpoint_url", "encrypted", "retention_notes"}
BackupSent == {"backup_type", "schedule", "timezone", "retention_days", "retention_copies",
               "destination_storage_resource_id", "provider_account_resource_id", "encrypted",
               "last_success_at", "last_failure_at", "last_restore_test_at",
               "source_resource_ids", "recovery_notes"}
StackSent == {"orchestrator", "host_resource_id", "project_name", "orchestrator_version",
              "compose_path", "working_directory", "management_url", "notes"}
ClusterSent == {"provider_account_resource_id", "distribution", "version", "api_server_url",
                "management_url", "provider_cluster_id", "region", "node_count",
                "high_availability", "upgrade_channel", "notes"}
NamespaceSent == {"cluster_resource_id", "namespace", "purpose", "resource_quota_summary"}
WorkloadSent == {"namespace_resource_id", "workload_kind", "workload_name",
                 "replicas_desired", "image_summary", "selector_summary", "service_account",
                 "notes"}
ServiceSent == {"host_resource_id", "manager", "unit_name", "display_name", "expected_state",
                "startup_type", "executable", "config_path", "working_directory",
                "log_location", "restart_policy", "notes"}
JobSent == {"scheduler", "host_resource_id", "schedule_expression", "timezone",
            "command_summary", "config_path", "working_directory", "run_as", "enabled",
            "last_success_at", "last_failure_at", "next_run_at", "notes"}

AccountSent == {"provider_id", "account_identifier", "tenant_id", "project_id", "portal_url",
                "default_region", "support_plan", "billing_reference"}

Sent(t) ==
    Identity \union
    (CASE t = "server" -> ServerSent [] t = "network" -> NetworkSent [] t = "subnet" -> SubnetSent
      [] t = "database_instance" -> DatabaseInstanceSent
      [] t = "logical_database" -> LogicalDatabaseSent
      [] t = "application" -> ApplicationSent
      [] t = "application_environment" -> EnvironmentSent
      [] t = "source_repository" -> RepositorySent
      [] t = "website" -> WebsiteSent [] t = "website_endpoint" -> EndpointSent
      [] t = "domain" -> DomainSent [] t = "dns_zone" -> ZoneSent
      [] t = "tls_certificate" -> CertificateSent
      [] t = "storage" -> StorageSent [] t = "backup_plan" -> BackupSent
      [] t = "container_stack" -> StackSent [] t = "kubernetes_cluster" -> ClusterSent
      [] t = "kubernetes_namespace" -> NamespaceSent
      [] t = "kubernetes_workload" -> WorkloadSent
      [] t = "system_service" -> ServiceSent [] t = "scheduled_job" -> JobSent
      [] t = "provider_account" -> AccountSent
      [] OTHER -> {})

---------------------------------------------------------------------------
\* What each form copies from a loaded record into its state: one list for
\* all the types of a family.  The record comes under the payload's own keys.

ComputeRestored ==
    Identity \union
    {"hostname", "fqdn", "purpose", "role", "compute_type", "architecture", "cpu_model",
     "cpu_cores", "ram_mb", "root_disk_gb", "os_family", "distribution", "os_version",
     "kernel_version", "provider_account_resource_id", "provider_resource_id",
     "provider_network_id", "region", "zone", "datacenter", "virtualization_type",
     "hypervisor", "ssh_port", "timezone", "automatic_updates", "patch_window",
     "last_patched_at", "commissioned_at", "decommissioned_at", "network_type", "cidr",
     "gateway", "vlan_id", "dns_servers", "network_resource_id", "availability_zone"}

DataRestored ==
    Identity \union
    {"engine", "engine_version", "hosting_type", "server_resource_id",
     "provider_account_resource_id", "provider_resource_id", "endpoint", "port", "region",
     "zone", "tls_mode", "high_availability", "replica_count", "backup_enabled",
     "maintenance_window", "instance_resource_id", "database_name", "purpose",
     "default_schema", "charset", "collation", "application_type", "owner_team",
     "primary_language", "framework", "application_resource_id", "deployment_type",
     "runtime", "runtime_version", "release_version", "branch_or_ref",
     "automatic_deployments", "web_url", "clone_url", "provider_repository_id",
     "owner_name", "repository_name", "default_branch", "visibility", "is_fork"}

WebRestored ==
    Identity \union
    {"website_type", "admin_url", "cms", "cms_version",
     "hosting_provider_account_resource_id", "cdn_provider_account_resource_id",
     "waf_provider_account_resource_id", "website_resource_id",
     "application_environment_resource_id", "domain_resource_id",
     "tls_certificate_resource_id", "url", "role", "is_primary", "redirects_to",
     "domain_name", "registrar_account_resource_id", "provider_domain_id", "status",
     "registered_on", "expires_on", "auto_renew", "transfer_lock_enabled",
     "privacy_enabled", "provider_account_resource_id", "zone_name", "provider_zone_id",
     "dnssec_enabled", "certificate_type", "issuer", "subject_common_name",
     "provider_certificate_id", "serial_number", "fingerprint_sha256", "issued_at",
     "expires_at"}

\* The schedule read here is a backup plan's: the record of a scheduled job
\* has it as schedule_expression, which is sent and never read.
OperationalRestored ==
    Identity \union
    {"provider_account_resource_id", "provider_resource_id", "region", "storage_type",
     "capacity_gb", "filesystem", "storage_class", "mount_path", "endpoint_url", "encrypted",
     "retention_notes", "backup_type", "schedule", "timezone", "retention_days",
     "retention_copies", "destination_storage_resource_id", "source_resource_ids",
     "last_success_at", "last_failure_at", "last_restore_test_at", "recovery_notes",
     "orchestrator", "host_resource_id", "project_name", "orchestrator_version",
     "compose_path", "working_directory", "management_url", "distribution", "version",
     "api_server_url", "provider_cluster_id", "node_count", "high_availability",
     "upgrade_channel", "cluster_resource_id", "namespace", "purpose",
     "resource_quota_summary", "namespace_resource_id", "workload_kind", "workload_name",
     "replicas_desired", "image_summary", "selector_summary", "service_account", "manager",
     "unit_name", "display_name", "expected_state", "startup_type", "executable",
     "config_path", "log_location", "restart_policy", "scheduler", "command_summary",
     "run_as", "enabled", "next_run_at", "notes"}

\* Mutant of CatalogueRestored: INITIAL_VALUES has no support_plan.
PlanForgotten ==
    Identity \union {"provider_id", "account_identifier", "tenant_id", "project_id",
                     "portal_url", "default_region", "billing_reference"}

\* The keys of INITIAL_VALUES, each looked up in the answer.
CatalogueRestored ==
    Identity \union {"provider_id", "account_identifier", "tenant_id", "project_id",
                     "portal_url", "default_region", "support_plan", "billing_reference"}

Restored(t) == CASE Family(t) = "compute" -> ComputeRestored
                 [] Family(t) = "data" -> DataRestored
                 [] Family(t) = "web" -> WebRestored
                 [] Family(t) = "operational" -> OperationalRestored
                 [] OTHER -> CatalogueRestored

\* Instants that the operational form renders in UTC and reads back as local
\* time, and the server's patch date that the compute form cuts to a minute.
Instants == {"last_success_at", "last_failure_at", "last_restore_test_at", "next_run_at",
             "last_patched_at"}

---------------------------------------------------------------------------
\* The controls each form offers for the fields it sends, section by section.

IdentityControls == Identity

ServerPlacementControls == {"hostname", "fqdn", "purpose", "role", "compute_type",
                            "architecture", "provider_account_resource_id",
                            "provider_resource_id", "region", "zone", "datacenter"}
ServerHardwareControls == {"cpu_model", "cpu_cores", "ram_mb", "root_disk_gb", "os_family",
                           "distribution", "os_version", "kernel_version",
                           "virtualization_type", "hypervisor"}
ServerOperationControls == ServerSent \ (ServerPlacementControls \union ServerHardwareControls)
NetworkControls == NetworkSent
SubnetControls == SubnetSent

\* The server of a database instance is offered unless a provider manages it.
DatabaseHostingControls(hosting) ==
    {"engine", "engine_version", "hosting_type", "provider_account_resource_id", "endpoint",
     "port"} \union (IF hosting # "managed" THEN {"server_resource_id"} ELSE {})
DatabaseOperationControls == {"provider_resource_id", "tls_mode", "region", "zone",
                              "high_availability", "replica_count", "backup_enabled",
                              "maintenance_window"}
LogicalDatabaseControls == LogicalDatabaseSent
ApplicationControls == ApplicationSent
EnvironmentControls == EnvironmentSent
RepositoryControls == RepositorySent

WebsiteControls == WebsiteSent
EndpointControls == EndpointSent
DomainControls == DomainSent
ZoneControls == ZoneSent
CertificateControls == CertificateSent

StorageControls == StorageSent
BackupControls == BackupSent
StackControls == StackSent
KubernetesControls == ClusterSent \union NamespaceSent \union WorkloadSent
ServiceControls == ServiceSent
\* The paths of a scheduled job are sent and have no control.
JobControls == JobSent \ {"config_path", "working_directory"}

AccountControls == AccountSent

Controls(t, hosting) ==
    Sent(t) \intersect
    (IdentityControls \union
     (CASE t = "server" -> ServerPlacementControls \union ServerHardwareControls
                             \union ServerOperationControls
        [] t = "network" -> NetworkControls [] t = "subnet" -> SubnetControls
        [] t = "database_instance" -> DatabaseHostingControls(hosting)
                                        \union DatabaseOperationControls
        [] t = "logical_database" -> LogicalDatabaseControls
        [] t = "application" -> ApplicationControls
        [] t = "application_environment" -> EnvironmentControls
        [] t = "source_repository" -> RepositoryControls
        [] t = "website" -> WebsiteControls [] t = "website_endpoint" -> EndpointControls
        [] t = "domain" -> DomainControls [] t = "dns_zone" -> ZoneControls
        [] t = "tls_certificate" -> CertificateControls
        [] t = "storage" -> StorageControls [] t = "backup_plan" -> BackupControls
        [] t = "container_stack" -> StackControls
        [] t \in {"kubernetes_cluster", "kubernetes_namespace", "kubernetes_workload"} ->
             KubernetesControls
        [] t = "system_service" -> ServiceControls
        [] t = "scheduled_job" -> JobControls
        [] t = "provider_account" -> AccountControls
        [] OTHER -> {}))
=============================================================================
