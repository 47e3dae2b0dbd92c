--------------------------- MODULE MCAttributeFlow ---------------------------
(***************************************************************************)
(* AttributeFlow over the kinds of attributes in the shipped specs.        *)
(***************************************************************************)
EXTENDS AttributeFlow

CONSTANTS v1, w1, v2, b1, b2

FormDef == [v \in Values |-> IF v = w1 THEN v1 ELSE v]
ResolvedDef == [v \in Values |-> IF v = v1 THEN {w1} ELSE {}]
DerivedDef == [b \in Bs |-> IF b = b1 THEN v1 ELSE v2]

A(mode, default, flags, update, habit) ==
    [kind |-> [mode |-> mode, default |-> default, flags |-> flags, update |-> update], api |-> habit]

R(flags, update, habit) == A("required", NoDefault, flags, update, habit)
O(flags, update, habit) == A("optional", NoDefault, flags, update, habit)
OC(default, flags, update, habit) == A("optional+computed", default, flags, update, habit)
C(flags, update, habit) == A("computed", NoDefault, flags, update, habit)

Shipped == {
    R({}, "put", "plain"),                                            \* admin_scope.name
    R({"forceNew"}, "put", "plain"),
    R({"forceNew"}, "none", "plain"),                                 \* access_grant.name
    R({"forceNew", "caseInsensitive"}, "none", "recased"),            \* azure_private_endpoint.subnet_id
    R({"preserveOnEmptyResponse"}, "put", "masked"),                  \* ssm_parameter.value
    O({}, "put", "blank"),                                            \* git_repository.ref_tag
    O({}, "merge", "blank"),                                          \* cluster_baseline.domain_name_filter
    O({"preserveOnEmptyResponse"}, "merge", "masked"),                \* elasticache.auth_token
    O({"preserveOnEmptyResponse"}, "put", "redacted"),                \* azure_key_vault_secret.value
    O({"forceNew"}, "merge", "plain"),                                \* cluster_baseline.network_id
    O({"forceNew", "createOnly", "noRead", "importAdoptsConfig"}, "put", "plain"),  \* aws_efs.backup
    O({"createOnly", "noRead"}, "put", "plain"),                      \* aws_lambda.s3_key
    OC(NoDefault, {}, "put", "blank"),                                \* admin_ai_agent.description
    OC(NoDefault, {}, "merge", "plain"),                              \* aws_secret.provisioner_type
    OC(NoDefault, {"forceNew"}, "merge", "plain"),                    \* cluster_baseline.region
    OC(NoDefault, {"forceNew"}, "none", "plain"),                     \* k8s_job.completions
    OC(NoDefault, {"forceNew", "caseInsensitive"}, "put", "recased"), \* azure_postgres_flexible_server
    OC(NoDefault, {"recomputeWhenChanged"}, "put", "derived"),        \* sqs.kms_master_key_id
    OC(NoDefault, {"updateOnlyIfChanged"}, "put", "delta"),           \* aws_efs.provisioned_throughput
    OC(v2, {"equivalentResponseValues"}, "put", "plain"),             \* ssm_parameter.tier, with one form and a default
    OC(v1, {}, "put", "blank"),                                       \* aws_lambda.handler
    OC(v1, {"forceNew"}, "put", "plain"),                             \* azure_managed_redis.sku_name
    OC(Empty, {}, "put", "blank"),                                    \* app_service.description
    OC(Empty, {"noRead"}, "put", "plain"),                            \* helm_release.description
    OC(Empty, {"forceNew", "importAdoptsConfig", "noRead"}, "put", "plain"),  \* helm_release.provisioner_version
    OC(Empty, {"forceNew"}, "put", "blank"),                          \* app_service.provisioner_version
    C({}, "put", "plain"),                                            \* admin_ai_agent.version
    C({"stable"}, "put", "late"),                                     \* azure_key_vault.key_vault_id
    C({"stable"}, "put", "partial"),                                  \* admin_user.created_at
    C({"stableUnlessChanged"}, "put", "derived"),                     \* app_service.service_name
    C({"sendFromState"}, "put", "plain"),                             \* azure_managed_redis.scope_ids
    C({"forceNew"}, "merge", "plain") }                               \* cluster_attributes.cluster_name

ASSUME ShippedDeclared == Cases = Shipped => AllDeclared /\ OneForm

(* Optional, computed and forceNew, but in no update body: not Declared. *)
Pinned == { OC(v1, {"forceNew", "createOnly", "importAdoptsConfig", "noRead"}, "put", "plain") }  \* native_host.instance_type
=============================================================================
