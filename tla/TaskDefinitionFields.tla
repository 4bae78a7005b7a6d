------------------------ MODULE TaskDefinitionFields -------------------------
(***************************************************************************)
(* What pkg/resource/task_definition copies, field by field: from the      *)
(* reply of a call into the spec (Read, CreateMerge, UpdateMerge), from    *)
(* the spec into the input of a call (CreatePayload, UpdatePayload), which *)
(* paths newResourceDelta compares, and the fields that references.go      *)
(* deals with.  The classes are those of FieldTables.                      *)
(***************************************************************************)
EXTENDS FieldTables

\* sdkFind: the container definitions, from Command to HealthCheck.
ReadContainersA ==
    In("ContainerDefinitions",
           As("optional", {"Command", "CredentialSpecs", "DisableNetworking",
                           "DNSSearchDomains", "DNSServers", "DockerLabels",
                           "DockerSecurityOptions", "EntryPoint",
                           "Essential"})
        @@ As("value", {"CPU"})
        @@ In("DependsOn", As("optional", {"Condition", "ContainerName"}))
        @@ In("Environment", As("optional", {"Name", "Value"}))
        @@ In("EnvironmentFiles", As("optional", {"Type", "Value"}))
        @@ In("ExtraHosts", As("optional", {"Hostname", "IPAddress"}))
        @@ In("FirelensConfiguration", As("optional", {"Options", "Type"}))
        @@ In("HealthCheck",
               As("optional", {"Command", "Interval", "Retries",
                               "StartPeriod", "Timeout"})))

\* sdkFind: from Hostname to MemoryReservation.
ReadContainersB ==
    In("ContainerDefinitions",
           As("optional", {"Hostname", "Image", "Interactive", "Links",
                           "Memory", "MemoryReservation"})
        @@ In("LinuxParameters",
                  As("optional", {"InitProcessEnabled", "MaxSwap",
                                  "SharedMemorySize", "Swappiness"})
               @@ In("Capabilities", As("optional", {"Add", "Drop"}))
               @@ In("Devices",
                      As("optional", {"ContainerPath", "HostPath",
                                      "Permissions"}))
               @@ In("Tmpfs",
                         As("optional", {"ContainerPath", "MountOptions"})
                      @@ As("value", {"Size"})))
        @@ In("LogConfiguration",
                  As("optional", {"LogDriver", "Options"})
               @@ In("SecretOptions", As("optional", {"Name", "ValueFrom"}))))

\* sdkFind: from MountPoints to Secrets.
ReadContainersC ==
    In("ContainerDefinitions",
           As("optional", {"Name", "Privileged", "PseudoTerminal",
                           "ReadonlyRootFilesystem"})
        @@ In("MountPoints",
               As("optional", {"ContainerPath", "ReadOnly", "SourceVolume"}))
        @@ In("PortMappings",
               As("optional", {"AppProtocol", "ContainerPort",
                               "ContainerPortRange", "HostPort", "Name",
                               "Protocol"}))
        @@ In("RepositoryCredentials",
               As("optional", {"CredentialsParameter"}))
        @@ In("ResourceRequirements", As("optional", {"Type", "Value"}))
        @@ In("Secrets", As("optional", {"Name", "ValueFrom"})))

\* sdkFind: from StartTimeout to WorkingDirectory.
ReadContainersD ==
    In("ContainerDefinitions",
           As("optional", {"StartTimeout", "StopTimeout", "User",
                           "WorkingDirectory"})
        @@ In("SystemControls", As("optional", {"Namespace", "Value"}))
        @@ In("Ulimits",
                  As("optional", {"Name"})
               @@ As("value", {"HardLimit", "SoftLimit"}))
        @@ In("VolumesFrom", As("optional", {"ReadOnly", "SourceContainer"})))

\* sdkFind: the task, from CPU to PlacementConstraints.
ReadTaskA ==
       As("optional", {"CPU", "ExecutionRoleARN", "Family", "IPCMode",
                       "Memory", "NetworkMode", "PIDMode"})
    @@ In("EphemeralStorage", As("value", {"SizeInGiB"}))
    @@ In("InferenceAccelerators",
           As("optional", {"DeviceName", "DeviceType"}))
    @@ In("PlacementConstraints", As("optional", {"Expression", "Type"}))

\* sdkFind: from ProxyConfiguration to TaskRoleARN.
ReadTaskB ==
       As("optional", {"RequiresCompatibilities", "TaskRoleARN"})
    @@ In("ProxyConfiguration",
              As("optional", {"ContainerName", "Type"})
           @@ In("Properties", As("optional", {"Name", "Value"})))
    @@ In("RuntimePlatform",
           As("optional", {"CPUArchitecture", "OperatingSystemFamily"}))

\* sdkFind: the volumes.
ReadVolumes ==
    In("Volumes",
           As("optional", {"ConfiguredAtLaunch", "Name"})
        @@ In("DockerVolumeConfiguration",
               As("optional", {"Autoprovision", "Driver", "DriverOpts",
                               "Labels", "Scope"}))
        @@ In("EFSVolumeConfiguration",
                  As("optional", {"FileSystemID", "RootDirectory",
                                  "TransitEncryption",
                                  "TransitEncryptionPort"})
               @@ In("AuthorizationConfig",
                      As("optional", {"AccessPointID", "IAM"})))
        @@ In("FsxWindowsFileServerVolumeConfiguration",
                  As("optional", {"FileSystemID", "RootDirectory"})
               @@ In("AuthorizationConfig",
                      As("optional", {"CredentialsParameter", "Domain"})))
        @@ In("Host", As("optional", {"SourcePath"})))

Read ==
    ReadContainersA @@ ReadContainersB @@ ReadContainersC @@ ReadContainersD
    @@ ReadTaskA @@ ReadTaskB @@ ReadVolumes

\* sdkCreate: the same fields as in sdkFind, part by part.
CreateMergeContainersA == ReadContainersA

CreateMergeContainersB == ReadContainersB

CreateMergeContainersC == ReadContainersC

CreateMergeContainersD == ReadContainersD

CreateMergeTaskA == ReadTaskA

CreateMergeTaskB == ReadTaskB

CreateMergeVolumes == ReadVolumes

CreateMerge ==
    CreateMergeContainersA @@ CreateMergeContainersB
    @@ CreateMergeContainersC @@ CreateMergeContainersD @@ CreateMergeTaskA
    @@ CreateMergeTaskB @@ CreateMergeVolumes

\* sdkUpdate: the same fields as in sdkFind, part by part.
UpdateMergeContainersA == ReadContainersA

UpdateMergeContainersB == ReadContainersB

UpdateMergeContainersC == ReadContainersC

UpdateMergeContainersD == ReadContainersD

UpdateMergeTaskA == ReadTaskA

UpdateMergeTaskB == ReadTaskB

UpdateMergeVolumes == ReadVolumes

UpdateMerge ==
    UpdateMergeContainersA @@ UpdateMergeContainersB
    @@ UpdateMergeContainersC @@ UpdateMergeContainersD @@ UpdateMergeTaskA
    @@ UpdateMergeTaskB @@ UpdateMergeVolumes

\* newCreateRequestPayload: the container definitions, from Command to
\* HealthCheck.
CreatePayloadContainersA ==
    In("ContainerDefinitions",
           As("optional", {"Command", "CredentialSpecs", "DisableNetworking",
                           "DNSSearchDomains", "DNSServers", "DockerLabels",
                           "DockerSecurityOptions", "EntryPoint",
                           "Essential"})
        @@ As("value", {"CPU"})
        @@ In("DependsOn", As("optional", {"Condition", "ContainerName"}))
        @@ In("Environment", As("optional", {"Name", "Value"}))
        @@ In("EnvironmentFiles", As("optional", {"Type", "Value"}))
        @@ In("ExtraHosts", As("optional", {"Hostname", "IPAddress"}))
        @@ In("FirelensConfiguration", As("optional", {"Options", "Type"}))
        @@ In("HealthCheck",
                  As("int32", {"Interval", "Retries", "StartPeriod",
                               "Timeout"})
               @@ As("optional", {"Command"})))

\* newCreateRequestPayload: from Hostname to MemoryReservation.
CreatePayloadContainersB ==
    In("ContainerDefinitions",
           As("int32", {"Memory", "MemoryReservation"})
        @@ As("optional", {"Hostname", "Image", "Interactive", "Links"})
        @@ In("LinuxParameters",
                  As("int32", {"MaxSwap", "SharedMemorySize", "Swappiness"})
               @@ As("optional", {"InitProcessEnabled"})
               @@ In("Capabilities", As("optional", {"Add", "Drop"}))
               @@ In("Devices",
                      As("optional", {"ContainerPath", "HostPath",
                                      "Permissions"}))
               @@ In("Tmpfs",
                         As("optional", {"ContainerPath", "MountOptions"})
                      @@ As("value", {"Size"})))
        @@ In("LogConfiguration",
                  As("optional", {"LogDriver", "Options"})
               @@ In("SecretOptions", As("optional", {"Name", "ValueFrom"}))))

\* newCreateRequestPayload: from MountPoints to Secrets.
CreatePayloadContainersC ==
    In("ContainerDefinitions",
           As("optional", {"Name", "Privileged", "PseudoTerminal",
                           "ReadonlyRootFilesystem"})
        @@ In("MountPoints",
               As("optional", {"ContainerPath", "ReadOnly", "SourceVolume"}))
        @@ In("PortMappings",
                  As("int32", {"ContainerPort", "HostPort"})
               @@ As("optional", {"AppProtocol", "ContainerPortRange", "Name",
                                  "Protocol"}))
        @@ In("RepositoryCredentials",
               As("optional", {"CredentialsParameter"}))
        @@ In("ResourceRequirements", As("optional", {"Type", "Value"}))
        @@ In("Secrets", As("optional", {"Name", "ValueFrom"})))

\* newCreateRequestPayload: from StartTimeout to WorkingDirectory.
CreatePayloadContainersD ==
    In("ContainerDefinitions",
           As("int32", {"StartTimeout", "StopTimeout"})
        @@ As("optional", {"User", "WorkingDirectory"})
        @@ In("SystemControls", As("optional", {"Namespace", "Value"}))
        @@ In("Ulimits",
                  As("optional", {"Name"})
               @@ As("value", {"HardLimit", "SoftLimit"}))
        @@ In("VolumesFrom", As("optional", {"ReadOnly", "SourceContainer"})))

\* newCreateRequestPayload: the task, from CPU to PlacementConstraints.
CreatePayloadTaskA ==
       As("optional", {"CPU", "ExecutionRoleARN", "Family", "IPCMode",
                       "Memory", "NetworkMode", "PIDMode"})
    @@ In("EphemeralStorage", As("value", {"SizeInGiB"}))
    @@ In("InferenceAccelerators",
           As("optional", {"DeviceName", "DeviceType"}))
    @@ In("PlacementConstraints", As("optional", {"Expression", "Type"}))

\* newCreateRequestPayload: from ProxyConfiguration to TaskRoleARN.
CreatePayloadTaskB ==
       As("optional", {"RequiresCompatibilities", "TaskRoleARN"})
    @@ In("ProxyConfiguration",
              As("optional", {"ContainerName", "Type"})
           @@ In("Properties", As("optional", {"Name", "Value"})))
    @@ In("RuntimePlatform",
           As("optional", {"CPUArchitecture", "OperatingSystemFamily"}))
    @@ In("Tags", As("optional", {"Key", "Value"}))

\* newCreateRequestPayload: the volumes.
CreatePayloadVolumes ==
    In("Volumes",
           As("optional", {"ConfiguredAtLaunch", "Name"})
        @@ In("DockerVolumeConfiguration",
               As("optional", {"Autoprovision", "Driver", "DriverOpts",
                               "Labels", "Scope"}))
        @@ In("EFSVolumeConfiguration",
                  As("int32", {"TransitEncryptionPort"})
               @@ As("optional", {"FileSystemID", "RootDirectory",
                                  "TransitEncryption"})
               @@ In("AuthorizationConfig",
                      As("optional", {"AccessPointID", "IAM"})))
        @@ In("FsxWindowsFileServerVolumeConfiguration",
                  As("optional", {"FileSystemID", "RootDirectory"})
               @@ In("AuthorizationConfig",
                      As("optional", {"CredentialsParameter", "Domain"})))
        @@ In("Host", As("optional", {"SourcePath"})))

CreatePayload ==
    CreatePayloadContainersA @@ CreatePayloadContainersB
    @@ CreatePayloadContainersC @@ CreatePayloadContainersD
    @@ CreatePayloadTaskA @@ CreatePayloadTaskB @@ CreatePayloadVolumes

\* newUpdateRequestPayload: the same fields as in newCreateRequestPayload,
\* part by part.
UpdatePayloadContainersA == CreatePayloadContainersA

UpdatePayloadContainersB == CreatePayloadContainersB

UpdatePayloadContainersC == CreatePayloadContainersC

UpdatePayloadContainersD == CreatePayloadContainersD

UpdatePayloadTaskA == CreatePayloadTaskA

UpdatePayloadTaskB == CreatePayloadTaskB

\* Mutant: a new revision is registered without the volumes.
UpdatePayloadWithoutVolumes == [f \in {} |-> "optional"]

UpdatePayloadVolumes == CreatePayloadVolumes

UpdatePayload ==
    UpdatePayloadContainersA @@ UpdatePayloadContainersB
    @@ UpdatePayloadContainersC @@ UpdatePayloadContainersD
    @@ UpdatePayloadTaskA @@ UpdatePayloadTaskB @@ UpdatePayloadVolumes

\* newResourceDelta: the paths from ContainerDefinitions to TaskRoleARN.
ComparedA ==
         Paths({"ContainerDefinitions", "CPU", "ExecutionRoleARN", "Family",
                "InferenceAccelerators", "IPCMode", "Memory", "NetworkMode",
                "PIDMode", "PlacementConstraints", "RequiresCompatibilities",
                "Tags", "TaskRoleARN"})
    \cup Below("EphemeralStorage", Paths({"SizeInGiB"}))
    \cup Below("ProxyConfiguration",
             Paths({"ContainerName", "Properties", "Type"}))
    \cup Below("RuntimePlatform",
             Paths({"CPUArchitecture", "OperatingSystemFamily"}))

\* Mutant: the volumes are not compared.
ComparedWithoutVolumes == {}

\* newResourceDelta: the paths from Volumes to Volumes.
ComparedB ==
    Paths({"Volumes"})

Compared == ComparedA \cup ComparedB

\* What the resolve functions set, from resources that exist and are synced.
resolveReferenceForExecutionRoleARN ==
    Paths({"ExecutionRoleARN"})

resolveReferenceForTaskRoleARN ==
    Paths({"TaskRoleARN"})

ResolveReferences ==
         resolveReferenceForExecutionRoleARN
    \cup resolveReferenceForTaskRoleARN

\* A reference to and a value of one of them is an error.
validateReferenceFields ==
    Paths({"ExecutionRoleARN", "TaskRoleARN"})

\* What is taken out of the spec that is written back, while its reference is
\* there.
ClearResolvedReferences ==
    Paths({"ExecutionRoleARN", "TaskRoleARN"})

==============================================================================
