---------------------------- MODULE ClusterFields ----------------------------
(***************************************************************************)
(* What pkg/resource/cluster copies, field by field: from the reply of a   *)
(* call into the spec (Read, CreateMerge, UpdateMerge), from the spec into *)
(* the input of a call (CreatePayload, UpdatePayload), which paths         *)
(* newResourceDelta compares, and the fields that references.go deals      *)
(* with.  The classes are those of FieldTables.                            *)
(***************************************************************************)
EXTENDS FieldTables

\* sdkFind: every field.
Read ==
       As("optional", {"CapacityProviders", "Name"})
    @@ In("Configuration",
           In("ExecuteCommandConfiguration",
                  As("optional", {"KMSKeyID", "Logging"})
               @@ In("LogConfiguration",
                         As("optional", {"CloudWatchLogGroupName",
                                         "S3BucketName", "S3KeyPrefix"})
                      @@ As("value", {"CloudWatchEncryptionEnabled",
                                      "S3EncryptionEnabled"}))))
    @@ In("DefaultCapacityProviderStrategy",
              As("optional", {"CapacityProvider"})
           @@ As("value", {"Base", "Weight"}))
    @@ In("ServiceConnectDefaults", As("optional", {"Namespace"}))
    @@ In("Settings", As("optional", {"Name", "Value"}))
    @@ In("Tags", As("optional", {"Key", "Value"}))

\* sdkCreate: the same fields as in sdkFind.
CreateMerge == Read

\* sdkUpdate: the same fields as in sdkFind.
UpdateMerge == Read

\* newCreateRequestPayload: every field.
CreatePayload ==
       As("optional", {"CapacityProviders", "Name"})
    @@ In("Configuration",
           In("ExecuteCommandConfiguration",
                  As("optional", {"KMSKeyID", "Logging"})
               @@ In("LogConfiguration",
                         As("optional", {"CloudWatchLogGroupName",
                                         "S3BucketName", "S3KeyPrefix"})
                      @@ As("value", {"CloudWatchEncryptionEnabled",
                                      "S3EncryptionEnabled"}))))
    @@ In("DefaultCapacityProviderStrategy",
              As("optional", {"CapacityProvider"})
           @@ As("value", {"Base", "Weight"}))
    @@ In("ServiceConnectDefaults", As("optional", {"Namespace"}))
    @@ In("Settings", As("optional", {"Name", "Value"}))
    @@ In("Tags", As("optional", {"Key", "Value"}))

\* newUpdateRequestPayload: every field.
UpdateClusterPayload ==
       In("Configuration",
           In("ExecuteCommandConfiguration",
                  As("optional", {"KMSKeyID", "Logging"})
               @@ In("LogConfiguration",
                         As("optional", {"CloudWatchLogGroupName",
                                         "S3BucketName", "S3KeyPrefix"})
                      @@ As("value", {"CloudWatchEncryptionEnabled",
                                      "S3EncryptionEnabled"}))))
    @@ In("ServiceConnectDefaults", As("optional", {"Namespace"}))
    @@ In("Settings", As("optional", {"Name", "Value"}))

\* sdkUpdate: what PutClusterCapacityProviders is given.  The conversion to 32
\* bits is not checked here.
PutPayload ==
       As("optional", {"CapacityProviders"})
    @@ In("DefaultCapacityProviderStrategy",
              As("optional", {"CapacityProvider"})
           @@ As("cut", {"Base", "Weight"}))

\* sdkUpdate: what SyncTags is given.
SyncedTags == In("Tags", As("optional", {"Key", "Value"}))

UpdatePayload ==
    UpdateClusterPayload @@ PutPayload @@ SyncedTags

\* newResourceDelta: every path it compares.
Compared ==
         Paths({"CapacityProviders", "DefaultCapacityProviderStrategy",
                "Name", "Settings", "Tags"})
    \cup Below("Configuration",
             Below("ExecuteCommandConfiguration",
                      Paths({"KMSKeyID", "Logging"})
                 \cup Below("LogConfiguration",
                          Paths({"CloudWatchEncryptionEnabled",
                                 "CloudWatchLogGroupName", "S3BucketName",
                                 "S3EncryptionEnabled", "S3KeyPrefix"}))))
    \cup Below("ServiceConnectDefaults", Paths({"Namespace"}))

\* What the resolve functions set, from resources that exist and are synced.
resolveReferenceForCapacityProviders ==
    Paths({"CapacityProviders"})

ResolveReferences ==
    resolveReferenceForCapacityProviders

\* A reference to and a value of one of them is an error.
validateReferenceFields ==
    Paths({"CapacityProviders"})

\* What is taken out of the spec that is written back, while its reference is
\* there.
ClearResolvedReferences ==
    Paths({"CapacityProviders"})

==============================================================================
