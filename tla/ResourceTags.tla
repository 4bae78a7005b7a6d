----------------------------- MODULE ResourceTags -----------------------------
(***************************************************************************)
(* The tags of a resource: the conversions of pkg/resource/<kind>/tags.go  *)
(* and manager.go, and what SyncTags of pkg/tags/sync.go asks of ECS.      *)
(*                                                                         *)
(* A list of tags is a function from keys to values.  Besides the user's   *)
(* keys there is the one the controller puts on everything it creates      *)
(* (--resource-tags) and one that an AWS service put there (aws:...).      *)
(***************************************************************************)
EXTENDS FiniteSets

CONSTANTS
    UserKeys,       \* the keys a user writes
    ControllerKey,  \* the key of the controller's default tag
    AwsKey,         \* a key that starts with "aws:"
    TagValues,      \* the values of tags
    ControllerTag,  \* the value of the controller's default tag
    NoTag           \* the key is not there

ASSUME TagsAssumption ==
    /\ ControllerKey # AwsKey
    /\ {ControllerKey, AwsKey} \cap UserKeys = {}
    /\ ControllerTag \in TagValues
    /\ NoTag \notin TagValues

\* What FilterSystemTags calls system tags.
SystemKeys == {ControllerKey, AwsKey}
Keys == UserKeys \cup SystemKeys

TagLists == [Keys -> TagValues \cup {NoTag}]
NoTags == [k \in Keys |-> NoTag]

\* EnsureTags merges the controller's default tags into those of the spec, which
\* win; convertToOrderedACKTags and fromACKTags keep what is there.
EnsureTags(tags) ==
    [tags EXCEPT ![ControllerKey] = IF @ = NoTag THEN ControllerTag ELSE @]

\* Mutant: the tags are written back as they were.
mirrorNothing(a, b) == a

\* mirrorAWSTags, run by ReadOne: the aws: tags that were observed are copied into
\* the resource that was read from Kubernetes, so that they make no difference.
mirrorAWSTags(a, b) ==
    [a EXCEPT ![AwsKey] = IF b[AwsKey] = NoTag THEN @ ELSE b[AwsKey]]

\* Mutant: only the keys that start with "aws:" are dropped.
FilterAwsTagsOnly(tags) == [k \in Keys |-> IF k = AwsKey THEN NoTag ELSE tags[k]]

\* FilterSystemTags, by which the runtime cleans both sides of the spec patch.
FilterSystemTags(tags) ==
    [k \in Keys |-> IF k \in SystemKeys THEN NoTag ELSE tags[k]]

\* SyncTags: the keys it has TagResource set, and those it has UntagResource remove.
toAdd(desired, latest) ==
    {k \in Keys : desired[k] # NoTag /\ desired[k] # latest[k]}

toDelete(desired, latest) ==
    {k \in Keys : latest[k] # NoTag /\ desired[k] = NoTag}

\* TagResource and UntagResource as ECS runs them.
Tagged(tags, desired, keys) ==
    [k \in Keys |-> IF k \in keys THEN desired[k] ELSE tags[k]]

Untagged(tags, keys) == [k \in Keys |-> IF k \in keys THEN NoTag ELSE tags[k]]
=============================================================================
