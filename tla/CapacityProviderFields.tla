----------------------- MODULE CapacityProviderFields ------------------------
(***************************************************************************)
(* What pkg/resource/capacity_provider copies, field by field: from the    *)
(* reply of a call into the spec (Read, CreateMerge, UpdateMerge), from    *)
(* the spec into the input of a call (CreatePayload, UpdatePayload), which *)
(* paths newResourceDelta compares, and the fields that references.go      *)
(* deals with.  The classes are those of FieldTables.                      *)
(***************************************************************************)
EXTENDS FieldTables

\* sdkFind: the Auto Scaling group and the cluster.
ReadGroup ==
       As("optional", {"Cluster"})
    @@ In("AutoScalingGroupProvider",
              As("optional", {"AutoScalingGroupARN", "ManagedDraining",
                              "ManagedTerminationProtection"})
           @@ In("ManagedScaling",
                  As("optional", {"InstanceWarmupPeriod",
                                  "MaximumScalingStepSize",
                                  "MinimumScalingStepSize", "Status",
                                  "TargetCapacity"})))

\* sdkFind: managed instances, as far as AcceleratorTypes.
ReadInstancesA ==
    In("ManagedInstancesProvider",
           As("optional", {"InfrastructureRoleARN"})
        @@ In("AutoRepairConfiguration", As("optional", {"ActionsStatus"}))
        @@ In("InfrastructureOptimization", As("optional", {"ScaleInAfter"}))
        @@ In("InstanceLaunchTemplate",
                  As("optional", {"CapacityOptionType",
                                  "EC2InstanceProfileARN", "FipsEnabled",
                                  "InstanceMetadataTagsPropagation"})
               @@ In("CapacityReservations",
                      As("optional", {"ReservationGroupARN",
                                      "ReservationPreference"}))
               @@ In("InstanceRequirements",
                         As("optional", {"AcceleratorManufacturers",
                                         "AcceleratorNames",
                                         "AcceleratorTypes"})
                      @@ In("AcceleratorCount",
                             As("optional", {"Max", "Min"}))
                      @@ In("AcceleratorTotalMemoryMiB",
                             As("optional", {"Max", "Min"})))))

\* sdkFind: from AllowedInstanceTypes to NetworkInterfaceCount.
ReadInstancesB ==
    In("ManagedInstancesProvider",
        In("InstanceLaunchTemplate",
            In("InstanceRequirements",
                   As("optional", {"AllowedInstanceTypes", "BareMetal",
                                   "BurstablePerformance", "CPUManufacturers",
                                   "ExcludedInstanceTypes",
                                   "InstanceGenerations", "LocalStorage",
                                   "LocalStorageTypes",
                                   "MaxSpotPriceAsPercentageOfOptimalOnDemandPrice"})
                @@ In("BaselineEBSBandwidthMbps",
                       As("optional", {"Max", "Min"}))
                @@ In("MemoryGiBPerVCPU", As("optional", {"Max", "Min"}))
                @@ In("MemoryMiB", As("optional", {"Max", "Min"}))
                @@ In("NetworkBandwidthGbps", As("optional", {"Max", "Min"}))
                @@ In("NetworkInterfaceCount", As("optional", {"Max", "Min"})))))

\* sdkFind: from OnDemandMaxPricePercentageOverLowestPrice on, the name and
\* the tags.
ReadInstancesC ==
       As("optional", {"Name"})
    @@ In("ManagedInstancesProvider",
              As("optional", {"PropagateTags"})
           @@ In("InstanceLaunchTemplate",
                     As("optional", {"Monitoring"})
                  @@ In("InstanceRequirements",
                            As("optional", {
                                            "OnDemandMaxPricePercentageOverLowestPrice",
                                            "RequireHibernateSupport",
                                            "SpotMaxPricePercentageOverLowestPrice"})
                         @@ In("TotalLocalStorageGB",
                                As("optional", {"Max", "Min"}))
                         @@ In("VCPUCount", As("optional", {"Max", "Min"})))
                  @@ In("LocalStorageConfiguration",
                         As("value", {"UseLocalStorage"}))
                  @@ In("NetworkConfiguration",
                         As("optional", {"SecurityGroups", "Subnets"}))
                  @@ In("StorageConfiguration",
                         As("optional", {"StorageSizeGiB"}))))
    @@ In("Tags", As("optional", {"Key", "Value"}))

Read ==
    ReadGroup @@ ReadInstancesA @@ ReadInstancesB @@ ReadInstancesC

\* sdkCreate: the same fields as in sdkFind, part by part.
CreateMergeGroup == ReadGroup

CreateMergeInstancesA == ReadInstancesA

CreateMergeInstancesB == ReadInstancesB

CreateMergeInstancesC == ReadInstancesC

CreateMerge ==
    CreateMergeGroup @@ CreateMergeInstancesA @@ CreateMergeInstancesB
    @@ CreateMergeInstancesC

\* sdkUpdate: the Auto Scaling group and the cluster.
UpdateMergeGroup ==
    As("optional", {"Cluster"})

\* sdkUpdate: from OnDemandMaxPricePercentageOverLowestPrice on, the name and
\* the tags.
UpdateMergeInstancesC ==
       As("optional", {"Name"})
    @@ In("Tags", As("optional", {"Key", "Value"}))

UpdateMerge ==
    UpdateMergeGroup @@ UpdateMergeInstancesC

\* newCreateRequestPayload: the Auto Scaling group and the cluster.
CreatePayloadGroup ==
       As("optional", {"Cluster"})
    @@ In("AutoScalingGroupProvider",
              As("optional", {"AutoScalingGroupARN", "ManagedDraining",
                              "ManagedTerminationProtection"})
           @@ In("ManagedScaling",
                     As("int32", {"InstanceWarmupPeriod",
                                  "MaximumScalingStepSize",
                                  "MinimumScalingStepSize", "TargetCapacity"})
                  @@ As("optional", {"Status"})))

\* newCreateRequestPayload: managed instances, as far as AcceleratorTypes.
CreatePayloadInstancesA ==
    In("ManagedInstancesProvider",
           As("optional", {"InfrastructureRoleARN"})
        @@ In("AutoRepairConfiguration", As("optional", {"ActionsStatus"}))
        @@ In("InfrastructureOptimization", As("int32", {"ScaleInAfter"}))
        @@ In("InstanceLaunchTemplate",
                  As("optional", {"CapacityOptionType",
                                  "EC2InstanceProfileARN", "FipsEnabled",
                                  "InstanceMetadataTagsPropagation"})
               @@ In("CapacityReservations",
                      As("optional", {"ReservationGroupARN",
                                      "ReservationPreference"}))
               @@ In("InstanceRequirements",
                         As("optional", {"AcceleratorManufacturers",
                                         "AcceleratorNames",
                                         "AcceleratorTypes"})
                      @@ In("AcceleratorCount", As("int32", {"Max", "Min"}))
                      @@ In("AcceleratorTotalMemoryMiB",
                             As("int32", {"Max", "Min"})))))

\* newCreateRequestPayload: from AllowedInstanceTypes to
\* NetworkInterfaceCount.
CreatePayloadInstancesB ==
    In("ManagedInstancesProvider",
        In("InstanceLaunchTemplate",
            In("InstanceRequirements",
                   As("int32", {
                                "MaxSpotPriceAsPercentageOfOptimalOnDemandPrice"})
                @@ As("optional", {"AllowedInstanceTypes", "BareMetal",
                                   "BurstablePerformance", "CPUManufacturers",
                                   "ExcludedInstanceTypes",
                                   "InstanceGenerations", "LocalStorage",
                                   "LocalStorageTypes"})
                @@ In("BaselineEBSBandwidthMbps", As("int32", {"Max", "Min"}))
                @@ In("MemoryGiBPerVCPU", As("optional", {"Max", "Min"}))
                @@ In("MemoryMiB", As("int32", {"Max", "Min"}))
                @@ In("NetworkBandwidthGbps", As("optional", {"Max", "Min"}))
                @@ In("NetworkInterfaceCount", As("int32", {"Max", "Min"})))))

\* newCreateRequestPayload: from OnDemandMaxPricePercentageOverLowestPrice on,
\* the name and the tags.
CreatePayloadInstancesC ==
       As("optional", {"Name"})
    @@ In("ManagedInstancesProvider",
              As("optional", {"PropagateTags"})
           @@ In("InstanceLaunchTemplate",
                     As("optional", {"Monitoring"})
                  @@ In("InstanceRequirements",
                            As("int32", {
                                         "OnDemandMaxPricePercentageOverLowestPrice",
                                         "SpotMaxPricePercentageOverLowestPrice"})
                         @@ As("optional", {"RequireHibernateSupport"})
                         @@ In("TotalLocalStorageGB",
                                As("optional", {"Max", "Min"}))
                         @@ In("VCPUCount", As("int32", {"Max", "Min"})))
                  @@ In("LocalStorageConfiguration",
                         As("value", {"UseLocalStorage"}))
                  @@ In("NetworkConfiguration",
                         As("optional", {"SecurityGroups", "Subnets"}))
                  @@ In("StorageConfiguration",
                         As("int32", {"StorageSizeGiB"}))))
    @@ In("Tags", As("optional", {"Key", "Value"}))

CreatePayload ==
    CreatePayloadGroup @@ CreatePayloadInstancesA @@ CreatePayloadInstancesB
    @@ CreatePayloadInstancesC

\* newUpdateRequestPayload: the Auto Scaling group and the cluster.
UpdatePayloadGroup ==
       As("optional", {"Cluster"})
    @@ In("AutoScalingGroupProvider",
              As("optional", {"ManagedDraining",
                              "ManagedTerminationProtection"})
           @@ In("ManagedScaling",
                     As("int32", {"InstanceWarmupPeriod",
                                  "MaximumScalingStepSize",
                                  "MinimumScalingStepSize", "TargetCapacity"})
                  @@ As("optional", {"Status"})))

\* newUpdateRequestPayload: managed instances, as far as AcceleratorTypes.
UpdatePayloadInstancesA ==
    In("ManagedInstancesProvider",
           As("optional", {"InfrastructureRoleARN"})
        @@ In("AutoRepairConfiguration", As("optional", {"ActionsStatus"}))
        @@ In("InfrastructureOptimization", As("int32", {"ScaleInAfter"}))
        @@ In("InstanceLaunchTemplate",
                  As("optional", {"EC2InstanceProfileARN",
                                  "InstanceMetadataTagsPropagation"})
               @@ In("CapacityReservations",
                      As("optional", {"ReservationGroupARN",
                                      "ReservationPreference"}))
               @@ In("InstanceRequirements",
                         As("optional", {"AcceleratorManufacturers",
                                         "AcceleratorNames",
                                         "AcceleratorTypes"})
                      @@ In("AcceleratorCount", As("int32", {"Max", "Min"}))
                      @@ In("AcceleratorTotalMemoryMiB",
                             As("int32", {"Max", "Min"})))))

UpdatePayloadInstancesB == CreatePayloadInstancesB

\* newUpdateRequestPayload: from OnDemandMaxPricePercentageOverLowestPrice on,
\* the name and the tags.
UpdatePayloadInstancesC ==
       As("optional", {"Name"})
    @@ In("ManagedInstancesProvider",
              As("optional", {"PropagateTags"})
           @@ In("InstanceLaunchTemplate",
                     As("optional", {"Monitoring"})
                  @@ In("InstanceRequirements",
                            As("int32", {
                                         "OnDemandMaxPricePercentageOverLowestPrice",
                                         "SpotMaxPricePercentageOverLowestPrice"})
                         @@ As("optional", {"RequireHibernateSupport"})
                         @@ In("TotalLocalStorageGB",
                                As("optional", {"Max", "Min"}))
                         @@ In("VCPUCount", As("int32", {"Max", "Min"})))
                  @@ In("LocalStorageConfiguration",
                         As("value", {"UseLocalStorage"}))
                  @@ In("NetworkConfiguration",
                         As("optional", {"SecurityGroups", "Subnets"}))
                  @@ In("StorageConfiguration",
                         As("int32", {"StorageSizeGiB"}))))

UpdatePayload ==
    UpdatePayloadGroup @@ UpdatePayloadInstancesA @@ UpdatePayloadInstancesB
    @@ UpdatePayloadInstancesC

\* newResourceDelta: the paths from AutoScalingGroupARN to FipsEnabled.
ComparedA ==
         Paths({"Cluster"})
    \cup Below("AutoScalingGroupProvider",
                  Paths({"AutoScalingGroupARN", "ManagedDraining",
                         "ManagedTerminationProtection"})
             \cup Below("ManagedScaling",
                      Paths({"InstanceWarmupPeriod", "MaximumScalingStepSize",
                             "MinimumScalingStepSize", "Status",
                             "TargetCapacity"})))
    \cup Below("ManagedInstancesProvider",
                  Paths({"InfrastructureRoleARN"})
             \cup Below("AutoRepairConfiguration", Paths({"ActionsStatus"}))
             \cup Below("InfrastructureOptimization", Paths({"ScaleInAfter"}))
             \cup Below("InstanceLaunchTemplate",
                           Paths({"CapacityOptionType",
                                  "EC2InstanceProfileARN", "FipsEnabled"})
                      \cup Below("CapacityReservations",
                               Paths({"ReservationGroupARN",
                                      "ReservationPreference"}))))

\* newResourceDelta: the paths from InstanceMetadataTagsPropagation to
\* LocalStorageTypes.
ComparedB ==
    Below("ManagedInstancesProvider",
        Below("InstanceLaunchTemplate",
                 Paths({"InstanceMetadataTagsPropagation"})
            \cup Below("InstanceRequirements",
                          Paths({"AcceleratorManufacturers",
                                 "AcceleratorNames", "AcceleratorTypes",
                                 "AllowedInstanceTypes", "BareMetal",
                                 "BurstablePerformance", "CPUManufacturers",
                                 "ExcludedInstanceTypes",
                                 "InstanceGenerations", "LocalStorage",
                                 "LocalStorageTypes"})
                     \cup Below("AcceleratorCount", Paths({"Max", "Min"}))
                     \cup Below("AcceleratorTotalMemoryMiB",
                              Paths({"Max", "Min"}))
                     \cup Below("BaselineEBSBandwidthMbps",
                              Paths({"Max", "Min"})))))

\* newResourceDelta: the paths from
\* MaxSpotPriceAsPercentageOfOptimalOnDemandPrice to UseLocalStorage.
ComparedC ==
    Below("ManagedInstancesProvider",
        Below("InstanceLaunchTemplate",
                 Below("InstanceRequirements",
                          Paths({
                                 "MaxSpotPriceAsPercentageOfOptimalOnDemandPrice",
                                 "OnDemandMaxPricePercentageOverLowestPrice",
                                 "RequireHibernateSupport",
                                 "SpotMaxPricePercentageOverLowestPrice"})
                     \cup Below("MemoryGiBPerVCPU", Paths({"Max", "Min"}))
                     \cup Below("MemoryMiB", Paths({"Max", "Min"}))
                     \cup Below("NetworkBandwidthGbps", Paths({"Max", "Min"}))
                     \cup Below("NetworkInterfaceCount",
                              Paths({"Max", "Min"}))
                     \cup Below("TotalLocalStorageGB", Paths({"Max", "Min"}))
                     \cup Below("VCPUCount", Paths({"Max", "Min"})))
            \cup Below("LocalStorageConfiguration",
                     Paths({"UseLocalStorage"}))))

\* newResourceDelta: the paths from Monitoring to Tags.
ComparedD ==
         Paths({"Name", "Tags"})
    \cup Below("ManagedInstancesProvider",
                  Paths({"PropagateTags"})
             \cup Below("InstanceLaunchTemplate",
                           Paths({"Monitoring"})
                      \cup Below("NetworkConfiguration",
                               Paths({"SecurityGroups", "Subnets"}))
                      \cup Below("StorageConfiguration",
                               Paths({"StorageSizeGiB"}))))

Compared == ComparedA \cup ComparedB \cup ComparedC \cup ComparedD

\* What the resolve functions set, from resources that exist and are synced.
resolveReferenceForAutoScalingGroupProvider_AutoScalingGroupARN ==
    Below("AutoScalingGroupProvider", Paths({"AutoScalingGroupARN"}))

resolveReferenceForCluster ==
    Paths({"Cluster"})

resolveReferenceForManagedInstancesProvider_InfrastructureRoleARN ==
    Below("ManagedInstancesProvider", Paths({"InfrastructureRoleARN"}))

resolveReferenceForManagedInstancesProvider_InstanceLaunchTemplate_EC2InstanceProfileARN ==
    Below("ManagedInstancesProvider",
        Below("InstanceLaunchTemplate", Paths({"EC2InstanceProfileARN"})))

resolveReferenceForManagedInstancesProvider_InstanceLaunchTemplate_NetworkConfiguration_SecurityGroups ==
    Below("ManagedInstancesProvider",
        Below("InstanceLaunchTemplate",
            Below("NetworkConfiguration", Paths({"SecurityGroups"}))))

resolveReferenceForManagedInstancesProvider_InstanceLaunchTemplate_NetworkConfiguration_Subnets ==
    Below("ManagedInstancesProvider",
        Below("InstanceLaunchTemplate",
            Below("NetworkConfiguration", Paths({"Subnets"}))))

ResolveReferences ==
         resolveReferenceForAutoScalingGroupProvider_AutoScalingGroupARN
    \cup resolveReferenceForCluster
    \cup resolveReferenceForManagedInstancesProvider_InfrastructureRoleARN
    \cup resolveReferenceForManagedInstancesProvider_InstanceLaunchTemplate_EC2InstanceProfileARN
    \cup resolveReferenceForManagedInstancesProvider_InstanceLaunchTemplate_NetworkConfiguration_SecurityGroups
    \cup resolveReferenceForManagedInstancesProvider_InstanceLaunchTemplate_NetworkConfiguration_Subnets

\* A reference to and a value of one of them is an error.
validateReferenceFields ==
         Paths({"Cluster"})
    \cup Below("AutoScalingGroupProvider", Paths({"AutoScalingGroupARN"}))
    \cup Below("ManagedInstancesProvider",
                  Paths({"InfrastructureRoleARN"})
             \cup Below("InstanceLaunchTemplate",
                           Paths({"EC2InstanceProfileARN"})
                      \cup Below("NetworkConfiguration",
                               Paths({"SecurityGroups", "Subnets"}))))

\* What is taken out of the spec that is written back, while its reference is
\* there.
ClearResolvedReferences ==
         Paths({"Cluster"})
    \cup Below("AutoScalingGroupProvider", Paths({"AutoScalingGroupARN"}))
    \cup Below("ManagedInstancesProvider",
                  Paths({"InfrastructureRoleARN"})
             \cup Below("InstanceLaunchTemplate",
                           Paths({"EC2InstanceProfileARN"})
                      \cup Below("NetworkConfiguration",
                               Paths({"SecurityGroups", "Subnets"}))))

\* Their references are restored in a struct that was copied from a reply.
EnsureReferences ==
         Below("AutoScalingGroupProvider", Paths({"AutoScalingGroupARN"}))
    \cup Below("ManagedInstancesProvider",
                  Paths({"InfrastructureRoleARN"})
             \cup Below("InstanceLaunchTemplate",
                           Paths({"EC2InstanceProfileARN"})
                      \cup Below("NetworkConfiguration",
                               Paths({"SecurityGroups", "Subnets"}))))

==============================================================================
