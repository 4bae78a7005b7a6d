------------------------------ MODULE ApiTypes -------------------------------
(***************************************************************************)
(* The fields of the custom resources, from the Go types of apis/v1alpha1. *)
(* One operator per type.  A list or a map of structs counts as one struct; *)
(* a field is an integer of 64 bits ("int") or something else ("other").   *)
(* The references to other resources have tables of their own.             *)
(***************************************************************************)
EXTENDS FieldTables

ContainerDependency ==
    As("other", {"Condition", "ContainerName"})

KeyValuePair ==
    As("other", {"Name", "Value"})

EnvironmentFile ==
    As("other", {"Type", "Value"})

HostEntry ==
    As("other", {"Hostname", "IPAddress"})

FirelensConfiguration ==
    As("other", {"Options", "Type"})

HealthCheck ==
       As("int", {"Interval", "Retries", "StartPeriod", "Timeout"})
    @@ As("other", {"Command"})

KernelCapabilities ==
    As("other", {"Add", "Drop"})

Device ==
    As("other", {"ContainerPath", "HostPath", "Permissions"})

Tmpfs ==
       As("int", {"Size"})
    @@ As("other", {"ContainerPath", "MountOptions"})

LinuxParameters ==
       As("int", {"MaxSwap", "SharedMemorySize", "Swappiness"})
    @@ As("other", {"InitProcessEnabled"})
    @@ In("Capabilities", KernelCapabilities)
    @@ In("Devices", Device)
    @@ In("Tmpfs", Tmpfs)

Secret ==
    As("other", {"Name", "ValueFrom"})

LogConfiguration ==
       As("other", {"LogDriver", "Options"})
    @@ In("SecretOptions", Secret)

MountPoint ==
    As("other", {"ContainerPath", "ReadOnly", "SourceVolume"})

PortMapping ==
       As("int", {"ContainerPort", "HostPort"})
    @@ As("other", {"AppProtocol", "ContainerPortRange", "Name", "Protocol"})

RepositoryCredentials ==
    As("other", {"CredentialsParameter"})

ResourceRequirement ==
    As("other", {"Type", "Value"})

SystemControl ==
    As("other", {"Namespace", "Value"})

Ulimit ==
       As("int", {"HardLimit", "SoftLimit"})
    @@ As("other", {"Name"})

VolumeFrom ==
    As("other", {"ReadOnly", "SourceContainer"})

ContainerDefinition ==
       As("int", {"CPU", "Memory", "MemoryReservation", "StartTimeout",
                  "StopTimeout"})
    @@ As("other", {"Command", "CredentialSpecs", "DisableNetworking",
                    "DNSSearchDomains", "DNSServers", "DockerLabels",
                    "DockerSecurityOptions", "EntryPoint", "Essential",
                    "Hostname", "Image", "Interactive", "Links", "Name",
                    "Privileged", "PseudoTerminal", "ReadonlyRootFilesystem",
                    "User", "WorkingDirectory"})
    @@ In("DependsOn", ContainerDependency)
    @@ In("Environment", KeyValuePair)
    @@ In("EnvironmentFiles", EnvironmentFile)
    @@ In("ExtraHosts", HostEntry)
    @@ In("FirelensConfiguration", FirelensConfiguration)
    @@ In("HealthCheck", HealthCheck)
    @@ In("LinuxParameters", LinuxParameters)
    @@ In("LogConfiguration", LogConfiguration)
    @@ In("MountPoints", MountPoint)
    @@ In("PortMappings", PortMapping)
    @@ In("RepositoryCredentials", RepositoryCredentials)
    @@ In("ResourceRequirements", ResourceRequirement)
    @@ In("Secrets", Secret)
    @@ In("SystemControls", SystemControl)
    @@ In("Ulimits", Ulimit)
    @@ In("VolumesFrom", VolumeFrom)

EphemeralStorage ==
    As("int", {"SizeInGiB"})

InferenceAccelerator ==
    As("other", {"DeviceName", "DeviceType"})

TaskDefinitionPlacementConstraint ==
    As("other", {"Expression", "Type"})

ProxyConfiguration ==
       As("other", {"ContainerName", "Type"})
    @@ In("Properties", KeyValuePair)

RuntimePlatform ==
    As("other", {"CPUArchitecture", "OperatingSystemFamily"})

Tag ==
    As("other", {"Key", "Value"})

DockerVolumeConfiguration ==
    As("other", {"Autoprovision", "Driver", "DriverOpts", "Labels", "Scope"})

EFSAuthorizationConfig ==
    As("other", {"AccessPointID", "IAM"})

EFSVolumeConfiguration ==
       As("int", {"TransitEncryptionPort"})
    @@ As("other", {"FileSystemID", "RootDirectory", "TransitEncryption"})
    @@ In("AuthorizationConfig", EFSAuthorizationConfig)

FSxWindowsFileServerAuthorizationConfig ==
    As("other", {"CredentialsParameter", "Domain"})

FSxWindowsFileServerVolumeConfiguration ==
       As("other", {"FileSystemID", "RootDirectory"})
    @@ In("AuthorizationConfig", FSxWindowsFileServerAuthorizationConfig)

HostVolumeProperties ==
    As("other", {"SourcePath"})

Volume ==
       As("other", {"ConfiguredAtLaunch", "Name"})
    @@ In("DockerVolumeConfiguration", DockerVolumeConfiguration)
    @@ In("EFSVolumeConfiguration", EFSVolumeConfiguration)
    @@ In("FsxWindowsFileServerVolumeConfiguration",
           FSxWindowsFileServerVolumeConfiguration)
    @@ In("Host", HostVolumeProperties)

TaskDefinitionSpec ==
       As("other", {"CPU", "ExecutionRoleARN", "Family", "IPCMode", "Memory",
                    "NetworkMode", "PIDMode", "RequiresCompatibilities",
                    "TaskRoleARN"})
    @@ In("ContainerDefinitions", ContainerDefinition)
    @@ In("EphemeralStorage", EphemeralStorage)
    @@ In("InferenceAccelerators", InferenceAccelerator)
    @@ In("PlacementConstraints", TaskDefinitionPlacementConstraint)
    @@ In("ProxyConfiguration", ProxyConfiguration)
    @@ In("RuntimePlatform", RuntimePlatform)
    @@ In("Tags", Tag)
    @@ In("Volumes", Volume)

CapacityProviderStrategyItem ==
       As("int", {"Base", "Weight"})
    @@ As("other", {"CapacityProvider"})

DeploymentAlarms ==
    As("other", {"AlarmNames", "Enable", "Rollback"})

DeploymentCircuitBreaker ==
    As("other", {"Enable", "Rollback"})

DeploymentConfiguration ==
       As("int", {"MaximumPercent", "MinimumHealthyPercent"})
    @@ In("Alarms", DeploymentAlarms)
    @@ In("DeploymentCircuitBreaker", DeploymentCircuitBreaker)

DeploymentController ==
    As("other", {"Type"})

LoadBalancer ==
       As("int", {"ContainerPort"})
    @@ As("other", {"ContainerName", "LoadBalancerName", "TargetGroupARN"})

AWSVPCConfiguration ==
    As("other", {"AssignPublicIP", "SecurityGroups", "Subnets"})

NetworkConfiguration ==
    In("AWSVPCConfiguration", AWSVPCConfiguration)

PlacementConstraint ==
    As("other", {"Expression", "Type"})

PlacementStrategy ==
    As("other", {"Field", "Type"})

ServiceConnectClientAlias ==
       As("int", {"Port"})
    @@ As("other", {"DNSName"})

TimeoutConfiguration ==
    As("int", {"IdleTimeoutSeconds", "PerRequestTimeoutSeconds"})

ServiceConnecTTLSCertificateAuthority ==
    As("other", {"AWSPCAAuthorityARN"})

ServiceConnecTTLSConfiguration ==
       As("other", {"KMSKey", "RoleARN"})
    @@ In("IssuerCertificateAuthority",
           ServiceConnecTTLSCertificateAuthority)

ServiceConnectService ==
       As("int", {"IngressPortOverride"})
    @@ As("other", {"DiscoveryName", "PortName"})
    @@ In("ClientAliases", ServiceConnectClientAlias)
    @@ In("Timeout", TimeoutConfiguration)
    @@ In("TLS", ServiceConnecTTLSConfiguration)

ServiceConnectConfiguration ==
       As("other", {"Enabled", "Namespace"})
    @@ In("LogConfiguration", LogConfiguration)
    @@ In("Services", ServiceConnectService)

ServiceRegistry ==
       As("int", {"ContainerPort", "Port"})
    @@ As("other", {"ContainerName", "RegistryARN"})

EBSTagSpecification ==
       As("other", {"PropagateTags", "ResourceType"})
    @@ In("Tags", Tag)

ServiceManagedEBSVolumeConfiguration ==
       As("int", {"IOPS", "SizeInGiB", "Throughput"})
    @@ As("other", {"Encrypted", "FilesystemType", "KMSKeyID", "RoleARN",
                    "SnapshotID", "VolumeType"})
    @@ In("TagSpecifications", EBSTagSpecification)

ServiceVolumeConfiguration ==
       As("other", {"Name"})
    @@ In("ManagedEBSVolume", ServiceManagedEBSVolumeConfiguration)

ServiceSpec ==
       As("int", {"DesiredCount", "HealthCheckGracePeriodSeconds"})
    @@ As("other", {"Cluster", "EnableECSManagedTags", "EnableExecuteCommand",
                    "LaunchType", "Name", "PlatformVersion", "PropagateTags",
                    "Role", "SchedulingStrategy", "TaskDefinition"})
    @@ In("CapacityProviderStrategy", CapacityProviderStrategyItem)
    @@ In("DeploymentConfiguration", DeploymentConfiguration)
    @@ In("DeploymentController", DeploymentController)
    @@ In("LoadBalancers", LoadBalancer)
    @@ In("NetworkConfiguration", NetworkConfiguration)
    @@ In("PlacementConstraints", PlacementConstraint)
    @@ In("PlacementStrategy", PlacementStrategy)
    @@ In("ServiceConnectConfiguration", ServiceConnectConfiguration)
    @@ In("ServiceRegistries", ServiceRegistry)
    @@ In("Tags", Tag)
    @@ In("VolumeConfigurations", ServiceVolumeConfiguration)

ExecuteCommandLogConfiguration ==
    As("other", {"CloudWatchEncryptionEnabled", "CloudWatchLogGroupName",
                 "S3BucketName", "S3EncryptionEnabled", "S3KeyPrefix"})

ExecuteCommandConfiguration ==
       As("other", {"KMSKeyID", "Logging"})
    @@ In("LogConfiguration", ExecuteCommandLogConfiguration)

ClusterConfiguration ==
    In("ExecuteCommandConfiguration", ExecuteCommandConfiguration)

ClusterServiceConnectDefaultsRequest ==
    As("other", {"Namespace"})

ClusterSetting ==
    As("other", {"Name", "Value"})

ClusterSpec ==
       As("other", {"CapacityProviders", "Name"})
    @@ In("Configuration", ClusterConfiguration)
    @@ In("DefaultCapacityProviderStrategy", CapacityProviderStrategyItem)
    @@ In("ServiceConnectDefaults", ClusterServiceConnectDefaultsRequest)
    @@ In("Settings", ClusterSetting)
    @@ In("Tags", Tag)

ManagedScaling ==
       As("int", {"InstanceWarmupPeriod", "MaximumScalingStepSize",
                  "MinimumScalingStepSize", "TargetCapacity"})
    @@ As("other", {"Status"})

AutoScalingGroupProvider ==
       As("other", {"AutoScalingGroupARN", "ManagedDraining",
                    "ManagedTerminationProtection"})
    @@ In("ManagedScaling", ManagedScaling)

AutoRepairConfiguration ==
    As("other", {"ActionsStatus"})

InfrastructureOptimization ==
    As("int", {"ScaleInAfter"})

CapacityReservationRequest ==
    As("other", {"ReservationGroupARN", "ReservationPreference"})

AcceleratorCountRequest ==
    As("int", {"Max", "Min"})

AcceleratorTotalMemoryMiBRequest ==
    As("int", {"Max", "Min"})

BaselineEBSBandwidthMbpsRequest ==
    As("int", {"Max", "Min"})

MemoryGiBPerVCPURequest ==
    As("other", {"Max", "Min"})

MemoryMiBRequest ==
    As("int", {"Max", "Min"})

NetworkBandwidthGbpsRequest ==
    As("other", {"Max", "Min"})

NetworkInterfaceCountRequest ==
    As("int", {"Max", "Min"})

TotalLocalStorageGBRequest ==
    As("other", {"Max", "Min"})

VCPUCountRangeRequest ==
    As("int", {"Max", "Min"})

InstanceRequirementsRequest ==
       As("int", {"MaxSpotPriceAsPercentageOfOptimalOnDemandPrice",
                  "OnDemandMaxPricePercentageOverLowestPrice",
                  "SpotMaxPricePercentageOverLowestPrice"})
    @@ As("other", {"AcceleratorManufacturers", "AcceleratorNames",
                    "AcceleratorTypes", "AllowedInstanceTypes", "BareMetal",
                    "BurstablePerformance", "CPUManufacturers",
                    "ExcludedInstanceTypes", "InstanceGenerations",
                    "LocalStorage", "LocalStorageTypes",
                    "RequireHibernateSupport"})
    @@ In("AcceleratorCount", AcceleratorCountRequest)
    @@ In("AcceleratorTotalMemoryMiB", AcceleratorTotalMemoryMiBRequest)
    @@ In("BaselineEBSBandwidthMbps", BaselineEBSBandwidthMbpsRequest)
    @@ In("MemoryGiBPerVCPU", MemoryGiBPerVCPURequest)
    @@ In("MemoryMiB", MemoryMiBRequest)
    @@ In("NetworkBandwidthGbps", NetworkBandwidthGbpsRequest)
    @@ In("NetworkInterfaceCount", NetworkInterfaceCountRequest)
    @@ In("TotalLocalStorageGB", TotalLocalStorageGBRequest)
    @@ In("VCPUCount", VCPUCountRangeRequest)

ManagedInstancesLocalStorageConfiguration ==
    As("other", {"UseLocalStorage"})

ManagedInstancesNetworkConfiguration ==
    As("other", {"SecurityGroups", "Subnets"})

ManagedInstancesStorageConfiguration ==
    As("int", {"StorageSizeGiB"})

InstanceLaunchTemplate ==
       As("other", {"CapacityOptionType", "EC2InstanceProfileARN",
                    "FipsEnabled", "InstanceMetadataTagsPropagation",
                    "Monitoring"})
    @@ In("CapacityReservations", CapacityReservationRequest)
    @@ In("InstanceRequirements", InstanceRequirementsRequest)
    @@ In("LocalStorageConfiguration",
           ManagedInstancesLocalStorageConfiguration)
    @@ In("NetworkConfiguration", ManagedInstancesNetworkConfiguration)
    @@ In("StorageConfiguration", ManagedInstancesStorageConfiguration)

CreateManagedInstancesProviderConfiguration ==
       As("other", {"InfrastructureRoleARN", "PropagateTags"})
    @@ In("AutoRepairConfiguration", AutoRepairConfiguration)
    @@ In("InfrastructureOptimization", InfrastructureOptimization)
    @@ In("InstanceLaunchTemplate", InstanceLaunchTemplate)

CapacityProviderSpec ==
       As("other", {"Cluster", "Name"})
    @@ In("AutoScalingGroupProvider", AutoScalingGroupProvider)
    @@ In("ManagedInstancesProvider",
           CreateManagedInstancesProviderConfiguration)
    @@ In("Tags", Tag)

\* The fields of it that have a reference next to them (...Ref or ...Refs).
TaskDefinitionSpecReferences ==
    Paths({"ExecutionRoleARN", "TaskRoleARN"})

\* The fields of it that have a reference next to them (...Ref or ...Refs).
ServiceSpecReferences ==
         Paths({"Cluster", "Role", "TaskDefinition"})
    \cup Below("LoadBalancers", Paths({"LoadBalancerName", "TargetGroupARN"}))
    \cup Below("NetworkConfiguration",
             Below("AWSVPCConfiguration",
                 Paths({"SecurityGroups", "Subnets"})))

\* The fields of it that have a reference next to them (...Ref or ...Refs).
ClusterSpecReferences ==
    Paths({"CapacityProviders"})

\* The fields of it that have a reference next to them (...Ref or ...Refs).
CapacityProviderSpecReferences ==
         Paths({"Cluster"})
    \cup Below("AutoScalingGroupProvider", Paths({"AutoScalingGroupARN"}))
    \cup Below("ManagedInstancesProvider",
                  Paths({"InfrastructureRoleARN"})
             \cup Below("InstanceLaunchTemplate",
                           Paths({"EC2InstanceProfileARN"})
                      \cup Below("NetworkConfiguration",
                               Paths({"SecurityGroups", "Subnets"}))))

==============================================================================
