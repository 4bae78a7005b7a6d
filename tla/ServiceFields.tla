---------------------------- MODULE ServiceFields ----------------------------
(***************************************************************************)
(* What pkg/resource/service copies, field by field: from the reply of a   *)
(* call into the spec (Read, CreateMerge, UpdateMerge), from the spec into *)
(* the input of a call (CreatePayload, UpdatePayload), which paths         *)
(* newResourceDelta compares, and the fields that references.go deals      *)
(* with.  The classes are those of FieldTables.                            *)
(***************************************************************************)
EXTENDS FieldTables

\* sdkFind: from CapacityProviderStrategy to DeploymentController.
ReadDeployment ==
       In("CapacityProviderStrategy",
              As("optional", {"CapacityProvider"})
           @@ As("value", {"Base", "Weight"}))
    @@ In("DeploymentConfiguration",
              As("optional", {"MaximumPercent", "MinimumHealthyPercent"})
           @@ In("Alarms",
                     As("optional", {"AlarmNames"})
                  @@ As("value", {"Enable", "Rollback"}))
           @@ In("DeploymentCircuitBreaker",
                  As("value", {"Enable", "Rollback"})))
    @@ In("DeploymentController", As("optional", {"Type"}))

\* sdkFind: from DesiredCount to SchedulingStrategy.
ReadPlacement ==
       As("optional", {"HealthCheckGracePeriodSeconds", "LaunchType",
                       "PlatformVersion", "PropagateTags",
                       "SchedulingStrategy"})
    @@ As("value", {"DesiredCount", "EnableECSManagedTags",
                    "EnableExecuteCommand"})
    @@ In("LoadBalancers",
           As("optional", {"ContainerName", "ContainerPort",
                           "LoadBalancerName", "TargetGroupARN"}))
    @@ In("NetworkConfiguration",
           In("AWSVPCConfiguration",
               As("optional", {"AssignPublicIP", "SecurityGroups", "Subnets"})))
    @@ In("PlacementConstraints", As("optional", {"Expression", "Type"}))
    @@ In("PlacementStrategy", As("optional", {"Field", "Type"}))

\* sdkFind: from the name to TaskDefinition.
ReadTask ==
       As("optional", {"Name", "TaskDefinition"})
    @@ In("ServiceRegistries",
           As("optional", {"ContainerName", "ContainerPort", "Port",
                           "RegistryARN"}))
    @@ In("Tags", As("optional", {"Key", "Value"}))

Read ==
    ReadDeployment @@ ReadPlacement @@ ReadTask

\* sdkCreate: the same fields as in sdkFind, part by part.
CreateMergeDeployment == ReadDeployment

CreateMergePlacement == ReadPlacement

CreateMergeTask == ReadTask

CreateMerge ==
    CreateMergeDeployment @@ CreateMergePlacement @@ CreateMergeTask

\* sdkUpdate: the same fields as in sdkFind, part by part.
UpdateMergeDeployment == ReadDeployment

UpdateMergePlacement == ReadPlacement

UpdateMergeTask == ReadTask

UpdateMerge ==
    UpdateMergeDeployment @@ UpdateMergePlacement @@ UpdateMergeTask

\* newCreateRequestPayload: from CapacityProviderStrategy to
\* DeploymentController.
CreatePayloadDeployment ==
       As("optional", {"Cluster"})
    @@ In("CapacityProviderStrategy",
              As("optional", {"CapacityProvider"})
           @@ As("value", {"Base", "Weight"}))
    @@ In("DeploymentConfiguration",
              As("int32", {"MaximumPercent", "MinimumHealthyPercent"})
           @@ In("Alarms",
                     As("optional", {"AlarmNames"})
                  @@ As("value", {"Enable", "Rollback"}))
           @@ In("DeploymentCircuitBreaker",
                  As("value", {"Enable", "Rollback"})))
    @@ In("DeploymentController", As("optional", {"Type"}))

\* newCreateRequestPayload: from DesiredCount to SchedulingStrategy.
CreatePayloadPlacement ==
       As("int32", {"DesiredCount", "HealthCheckGracePeriodSeconds"})
    @@ As("optional", {"LaunchType", "PlatformVersion", "PropagateTags",
                       "Role", "SchedulingStrategy"})
    @@ As("value", {"EnableECSManagedTags", "EnableExecuteCommand"})
    @@ In("LoadBalancers",
              As("int32", {"ContainerPort"})
           @@ As("optional", {"ContainerName", "LoadBalancerName",
                              "TargetGroupARN"}))
    @@ In("NetworkConfiguration",
           In("AWSVPCConfiguration",
               As("optional", {"AssignPublicIP", "SecurityGroups", "Subnets"})))
    @@ In("PlacementConstraints", As("optional", {"Expression", "Type"}))
    @@ In("PlacementStrategy", As("optional", {"Field", "Type"}))

\* newCreateRequestPayload: the Service Connect configuration.
CreatePayloadConnect ==
    In("ServiceConnectConfiguration",
           As("optional", {"Namespace"})
        @@ As("value", {"Enabled"})
        @@ In("LogConfiguration",
                  As("optional", {"LogDriver", "Options"})
               @@ In("SecretOptions", As("optional", {"Name", "ValueFrom"})))
        @@ In("Services",
                  As("int32", {"IngressPortOverride"})
               @@ As("optional", {"DiscoveryName", "PortName"})
               @@ In("ClientAliases",
                         As("int32", {"Port"})
                      @@ As("optional", {"DNSName"}))
               @@ In("Timeout",
                      As("int32", {"IdleTimeoutSeconds",
                                   "PerRequestTimeoutSeconds"}))
               @@ In("TLS",
                         As("optional", {"KMSKey", "RoleARN"})
                      @@ In("IssuerCertificateAuthority",
                             As("optional", {"AWSPCAAuthorityARN"})))))

\* newCreateRequestPayload: from the name to TaskDefinition.
CreatePayloadTask ==
       As("optional", {"Name", "TaskDefinition"})
    @@ In("ServiceRegistries",
              As("int32", {"ContainerPort", "Port"})
           @@ As("optional", {"ContainerName", "RegistryARN"}))
    @@ In("Tags", As("optional", {"Key", "Value"}))

\* newCreateRequestPayload: the volume configurations.
CreatePayloadVolumes ==
    In("VolumeConfigurations",
           As("optional", {"Name"})
        @@ In("ManagedEBSVolume",
                  As("int32", {"IOPS", "SizeInGiB", "Throughput"})
               @@ As("optional", {"Encrypted", "FilesystemType", "KMSKeyID",
                                  "RoleARN", "SnapshotID", "VolumeType"})
               @@ In("TagSpecifications",
                         As("optional", {"PropagateTags", "ResourceType"})
                      @@ In("Tags", As("optional", {"Key", "Value"})))))

CreatePayload ==
    CreatePayloadDeployment @@ CreatePayloadPlacement
    @@ CreatePayloadConnect @@ CreatePayloadTask @@ CreatePayloadVolumes

\* newUpdateRequestPayload: the same fields as in newCreateRequestPayload,
\* part by part.
UpdatePayloadDeployment == CreatePayloadDeployment

\* newUpdateRequestPayload: from DesiredCount to SchedulingStrategy.
UpdatePayloadPlacement ==
       As("int32", {"DesiredCount", "HealthCheckGracePeriodSeconds"})
    @@ As("optional", {"EnableECSManagedTags", "EnableExecuteCommand",
                       "PlatformVersion", "PropagateTags"})
    @@ In("LoadBalancers",
              As("int32", {"ContainerPort"})
           @@ As("optional", {"ContainerName", "LoadBalancerName",
                              "TargetGroupARN"}))
    @@ In("NetworkConfiguration",
           In("AWSVPCConfiguration",
               As("optional", {"AssignPublicIP", "SecurityGroups", "Subnets"})))
    @@ In("PlacementConstraints", As("optional", {"Expression", "Type"}))
    @@ In("PlacementStrategy", As("optional", {"Field", "Type"}))

UpdatePayloadConnect == CreatePayloadConnect

\* newUpdateRequestPayload: from the name to TaskDefinition.
UpdatePayloadTask ==
       As("optional", {"TaskDefinition"})
    @@ In("ServiceRegistries",
              As("int32", {"ContainerPort", "Port"})
           @@ As("optional", {"ContainerName", "RegistryARN"}))

UpdatePayloadVolumes == CreatePayloadVolumes

UpdatePayload ==
    UpdatePayloadDeployment @@ UpdatePayloadPlacement
    @@ UpdatePayloadConnect @@ UpdatePayloadTask @@ UpdatePayloadVolumes

\* newResourceDelta: the paths from CapacityProviderStrategy to Name.
ComparedA ==
         Paths({"CapacityProviderStrategy", "Cluster", "DesiredCount",
                "EnableECSManagedTags", "EnableExecuteCommand",
                "HealthCheckGracePeriodSeconds", "LaunchType",
                "LoadBalancers", "Name"})
    \cup Below("DeploymentConfiguration",
                  Paths({"MaximumPercent", "MinimumHealthyPercent"})
             \cup Below("Alarms", Paths({"AlarmNames", "Enable", "Rollback"}))
             \cup Below("DeploymentCircuitBreaker",
                      Paths({"Enable", "Rollback"})))
    \cup Below("DeploymentController", Paths({"Type"}))

\* newResourceDelta: the paths from AssignPublicIP to VolumeConfigurations.
ComparedB ==
         Paths({"PlacementConstraints", "PlacementStrategy",
                "PlatformVersion", "PropagateTags", "Role",
                "SchedulingStrategy", "ServiceRegistries", "Tags",
                "TaskDefinition", "VolumeConfigurations"})
    \cup Below("NetworkConfiguration",
             Below("AWSVPCConfiguration",
                 Paths({"AssignPublicIP", "SecurityGroups", "Subnets"})))
    \cup Below("ServiceConnectConfiguration",
                  Paths({"Enabled", "Namespace", "Services"})
             \cup Below("LogConfiguration",
                      Paths({"LogDriver", "Options", "SecretOptions"})))

Compared == ComparedA \cup ComparedB

\* What the resolve functions set, from resources that exist and are synced.
resolveReferenceForCluster ==
    Paths({"Cluster"})

resolveReferenceForLoadBalancers_LoadBalancerName ==
    Below("LoadBalancers", Paths({"LoadBalancerName"}))

resolveReferenceForLoadBalancers_TargetGroupARN ==
    Below("LoadBalancers", Paths({"TargetGroupARN"}))

resolveReferenceForNetworkConfiguration_AWSVPCConfiguration_SecurityGroups ==
    Below("NetworkConfiguration",
        Below("AWSVPCConfiguration", Paths({"SecurityGroups"})))

resolveReferenceForNetworkConfiguration_AWSVPCConfiguration_Subnets ==
    Below("NetworkConfiguration",
        Below("AWSVPCConfiguration", Paths({"Subnets"})))

resolveReferenceForRole ==
    Paths({"Role"})

resolveReferenceForTaskDefinition ==
    Paths({"TaskDefinition"})

ResolveReferences ==
         resolveReferenceForCluster
    \cup resolveReferenceForLoadBalancers_LoadBalancerName
    \cup resolveReferenceForLoadBalancers_TargetGroupARN
    \cup resolveReferenceForNetworkConfiguration_AWSVPCConfiguration_SecurityGroups
    \cup resolveReferenceForNetworkConfiguration_AWSVPCConfiguration_Subnets
    \cup resolveReferenceForRole
    \cup resolveReferenceForTaskDefinition

\* A reference to and a value of one of them is an error.
validateReferenceFields ==
         Paths({"Cluster", "Role", "TaskDefinition"})
    \cup Below("LoadBalancers", Paths({"LoadBalancerName", "TargetGroupARN"}))
    \cup Below("NetworkConfiguration",
             Below("AWSVPCConfiguration",
                 Paths({"SecurityGroups", "Subnets"})))

\* What is taken out of the spec that is written back, while its reference is
\* there.
ClearResolvedReferences ==
         Paths({"Cluster", "Role", "TaskDefinition"})
    \cup Below("LoadBalancers", Paths({"LoadBalancerName", "TargetGroupARN"}))
    \cup Below("NetworkConfiguration",
             Below("AWSVPCConfiguration",
                 Paths({"SecurityGroups", "Subnets"})))

\* Mutant: the references to subnets are not restored.
EnsureReferencesToGroups ==
    Below("NetworkConfiguration",
        Below("AWSVPCConfiguration", Paths({"SecurityGroups"})))

\* Their references are restored in a struct that was copied from a reply.
EnsureReferences ==
    Below("NetworkConfiguration",
        Below("AWSVPCConfiguration", Paths({"SecurityGroups", "Subnets"})))

==============================================================================
