------------------------------ MODULE Schemas -------------------------------
(* The data of the generated codecs (go/abstraction/storage/.../rec.go): the *)
(* closed vocabularies, the fields of every record in the order the encoder  *)
(* writes them, and the methods of every service.  Wire gives them meaning.  *)
EXTENDS Integers

-----------------------------------------------------------------------------
(* The types a field may have.  Integers are narrowed: 64 bits become eight   *)
(* and 32 bits become four.                                                   *)

Str == [k |-> "str"]
Bool == [k |-> "bool"]
Binary == [k |-> "binary"]
Time == [k |-> "time"]
Map == [k |-> "map"]
Raw == [k |-> "raw"]
IntegerIn(min, max) == [k |-> "integer", min |-> min, max |-> max]
Int32 == IntegerIn(-8, 7)
Int64 == IntegerIn(-128, 127)
Enum(words) == [k |-> "enum", words |-> words]
List(type) == [k |-> "list", of |-> type]
Struct(fields) == [k |-> "struct", fields |-> fields]

\* A field the decoder requires, and one the encoder leaves out when it is zero.
F(key, type) == [key |-> key, type |-> type, opt |-> FALSE]
Opt(key, type) == [key |-> key, type |-> type, opt |-> TRUE]

-----------------------------------------------------------------------------
(* Closed vocabularies.                                                       *)
Verification == {"unverified"}
OpenOutcome == {"opened", "not_found", "forbidden", "invalid", "unsupported",
                "unavailable", "exhausted"}
ReadOutcome == {"data", "gap", "forbidden", "invalid", "unavailable", "changed"}
CloseOutcome == {"closed", "gap", "forbidden"}
BeginOutcome == {"started", "committed", "present", "forbidden", "invalid", "conflict",
                 "too_large", "busy", "unsupported", "unavailable", "exhausted"}
AppendOutcome == {"accepted", "gap", "forbidden", "invalid", "out_of_order", "too_large",
                  "unavailable"}
CommitOutcome == {"committed", "gap", "forbidden", "incomplete", "mismatch", "unavailable"}
AbortOutcome == {"aborted", "gap", "forbidden"}
Evidence == {"hashed", "named", "foreign", "none"}
ChangeKind == {"added", "removed"}
ChangePageOutcome == {"page", "gap", "forbidden", "invalid", "unavailable"}
ListingOutcome == {"page", "gap", "forbidden", "invalid", "unavailable"}
Addressing == {"content", "name"}
Placement == {"local", "remote"}
Lifetime == {"until_released", "lease", "while_present"}
HoldOutcome == {"held", "unknown_target", "conflict", "forbidden", "invalid", "exhausted",
                "unavailable"}
ReleaseOutcome == {"released", "unknown", "forbidden", "invalid", "unavailable"}
RenewOutcome == {"renewed", "unknown", "expired", "forbidden", "invalid", "unavailable"}
DescribeOutcome == {"described", "unknown", "forbidden", "invalid", "unavailable"}
PublishOutcome == {"published", "present", "incomplete", "conflict", "forbidden",
                   "invalid", "exhausted", "unavailable"}
InventoryOutcome == {"page", "gap", "forbidden", "invalid", "unavailable"}
RemoveOutcome == {"removed", "not_found", "held", "busy", "unsupported", "forbidden",
                  "invalid", "unavailable"}
SourceDescriptionOutcome == {"described", "forbidden", "invalid", "unavailable"}
SourceChangeKind == {"added", "removed", "held", "released", "store_changed"}
SourcePageOutcome == {"page", "gap", "forbidden", "invalid", "unavailable"}
Link == {"symbolic", "hard", "copy"}
LendOutcome == {"lent", "not_permitted", "unsupported_engine", "link_refused",
                "already_lent", "unknown_object", "invalid", "unavailable"}
UnlendOutcome == {"unlent", "not_permitted", "unknown", "invalid", "unavailable"}
LendsOutcome == {"page", "not_permitted", "invalid", "unavailable"}

-----------------------------------------------------------------------------
(* The records of content.thrift.                                           *)

Resource == Struct(<<F("handle", Str), F("digest", Str), F("size", Int64),
    F("verification", Enum(Verification))>>)
OpenResult == Struct(<<F("outcome", Enum(OpenOutcome)), Opt("resource", Resource)>>)
Chunk == Struct(<<F("offset", Int64), F("total", Int64), F("data", Binary),
    F("eof", Bool)>>)
ReadResult == Struct(<<F("outcome", Enum(ReadOutcome)), Opt("chunk", Chunk)>>)
CloseResult == Struct(<<F("outcome", Enum(CloseOutcome))>>)
Upload == Struct(<<F("handle", Str), F("digest", Str), F("size", Int64),
    F("received", Int64)>>)
Stored == Struct(<<F("digest", Str), F("size", Int64), F("evidence", Enum(Evidence))>>)
BeginResult == Struct(<<F("outcome", Enum(BeginOutcome)), Opt("upload", Upload),
    Opt("stored", Stored), F("limit", Int64)>>)
AppendResult == Struct(<<F("outcome", Enum(AppendOutcome)), F("received", Int64)>>)
CommitResult == Struct(<<F("outcome", Enum(CommitOutcome)), Opt("stored", Stored),
    F("received", Int64)>>)
AbortResult == Struct(<<F("outcome", Enum(AbortOutcome))>>)
Change == Struct(<<F("sequence", Int64), F("kind", Enum(ChangeKind)), F("digest", Str),
    F("size", Int64)>>)
ChangePage == Struct(<<F("outcome", Enum(ChangePageOutcome)), F("changes", List(Change)),
    F("next", Str), F("at_end", Bool)>>)
ListedObject == Struct(<<F("digest", Str), F("size", Int64)>>)
ListingPage == Struct(<<F("outcome", Enum(ListingOutcome)),
    F("objects", List(ListedObject)), F("continuation", Str), F("complete", Bool),
    F("cursor", Str)>>)
Object == Struct(<<F("locator", Str), F("size", Int64), F("modified", Time),
    F("partial", Bool), F("digest", Str), F("evidence", Enum(Evidence))>>)
Entry == Struct(<<F("role", Str), F("digest", Str), F("size", Int64), F("media_type", Str),
    F("evidence", Enum(Evidence)), F("locator", Str), Opt("manifest", Str),
    Opt("annotations", Map)>>)
Name == Struct(<<F("scheme", Str), F("name", Str)>>)
Manifest == Struct(<<F("id", Str), F("addressing", Enum(Addressing)), F("kind", Str),
    F("entries", List(Entry)), F("names", List(Name)), Opt("descriptor", Map),
    F("store", Str), Opt("superseded_by", Str)>>)
Holder == Struct(<<F("account", Str), F("program", Str), F("instance", Str),
    F("established_by", Str), F("domain", Str)>>)
Basis == Struct(<<F("index", Str), F("key", Str), Opt("role", Str)>>)
Hold == Struct(<<F("id", Str), F("holder", Holder), F("target", Str), F("purpose", Str),
    F("lifetime", Enum(Lifetime)), Opt("expires", Time), F("attestation", Str),
    F("observed_at", Time), Opt("basis", Basis)>>)
Dangling == Struct(<<F("holder", Holder), F("basis", Basis), F("reference", Str),
    Opt("expected_digest", Str), Opt("expected_size", Int64), F("observed_at", Time)>>)
StoreError == Struct(<<F("kind", Str), F("locator", Str), F("detail", Str)>>)
Store == Struct(<<F("name", Str), F("program", Str), F("locator", Str), F("rule", Str),
    F("present", Bool), F("errors", List(StoreError)), F("placement", Enum(Placement)),
    F("domain", Str)>>)
HoldResult == Struct(<<F("outcome", Enum(HoldOutcome)), Opt("hold", Hold)>>)
ReleaseResult == Struct(<<F("outcome", Enum(ReleaseOutcome))>>)
RenewResult == Struct(<<F("outcome", Enum(RenewOutcome)), Opt("hold", Hold)>>)
DescribeResult == Struct(<<F("outcome", Enum(DescribeOutcome)), Opt("manifest", Manifest)>>)
PublishResult == Struct(<<F("outcome", Enum(PublishOutcome)), Opt("manifest", Manifest),
    F("missing", List(Str))>>)
ManifestHolders == Struct(<<F("manifest", Manifest), F("holds", List(Hold))>>)
ObjectHolders == Struct(<<F("object", Object), F("store", Str), F("holds", List(Hold))>>)
InventoryPage == Struct(<<F("outcome", Enum(InventoryOutcome)), F("stores", List(Store)),
    F("manifests", List(ManifestHolders)), F("objects", List(ObjectHolders)),
    F("dangling", List(Dangling)), F("continuation", Str), F("complete", Bool),
    F("cursor", Str), F("grace_ms", Int64), F("audit_retention_ms", Int64)>>)
RemoveResult == Struct(<<F("outcome", Enum(RemoveOutcome)), F("holders", List(Holder))>>)
SourceDescription == Struct(<<F("outcome", Enum(SourceDescriptionOutcome)), F("name", Str),
    F("stores", List(Store)), F("schemes", List(Str)), F("capabilities", List(Str))>>)
SourceChange == Struct(<<F("sequence", Int64), F("kind", Enum(SourceChangeKind)),
    F("target", Str), Opt("hold", Hold), Opt("store", Store)>>)
SourcePage == Struct(<<F("outcome", Enum(SourcePageOutcome)), F("stores", List(Store)),
    F("manifests", List(ManifestHolders)), F("objects", List(ObjectHolders)),
    F("dangling", List(Dangling)), F("changes", List(SourceChange)),
    F("continuation", Str), F("complete", Bool), F("cursor", Str)>>)
OAContentReaderOpenArguments == Struct(<<F("digest", Str)>>)
OAContentReaderReadArguments == Struct(<<F("handle", Str), F("offset", Int64),
    F("max_bytes", Int64)>>)
OAContentReaderCloseArguments == Struct(<<F("handle", Str)>>)
OAContentWriterBeginArguments == Struct(<<F("request", Str), F("digest", Str),
    F("size", Int64)>>)
OAContentWriterAppendArguments == Struct(<<F("handle", Str), F("offset", Int64),
    F("data", Binary)>>)
OAContentWriterCommitArguments == Struct(<<F("handle", Str)>>)
OAContentWriterAbortArguments == Struct(<<F("handle", Str)>>)
OAContentChangesObserveArguments == Struct(<<F("cursor", Str), F("max_changes", Int64),
    F("wait_ms", Int64)>>)
OAContentChangesListArguments == Struct(<<F("continuation", Str), F("limit", Int64)>>)
OAHoldsHoldArguments == Struct(<<F("request", Str), F("target", Str), F("purpose", Str),
    F("lifetime", Enum(Lifetime)), F("lease_ms", Int64)>>)
OAHoldsReleaseArguments == Struct(<<F("hold", Str)>>)
OAHoldsRenewArguments == Struct(<<F("hold", Str), F("lease_ms", Int64)>>)
OAManifestsDescribeArguments == Struct(<<F("id", Str)>>)
OAManifestsPublishArguments == Struct(<<F("request", Str), F("manifest", Manifest)>>)
OAInventoryListArguments == Struct(<<F("continuation", Str), F("limit", Int64)>>)
OAInventoryListStoreArguments == Struct(<<F("store", Str), F("continuation", Str),
    F("limit", Int64)>>)
OAInventoryHoldersArguments == Struct(<<F("target", Str)>>)
OAInventoryUnheldArguments == Struct(<<F("continuation", Str), F("limit", Int64)>>)
OAInventoryFindArguments == Struct(<<F("digest", Str)>>)
OAContentRemoverRemoveArguments == Struct(<<F("target", Str)>>)
OAInventorySourceDescribeArguments == Struct(<<>>)
OAInventorySourceSnapshotArguments == Struct(<<F("continuation", Str), F("limit", Int64)>>)
OAInventorySourceObserveArguments == Struct(<<F("cursor", Str), F("max_changes", Int64),
    F("wait_ms", Int64)>>)
OAInventorySourceVerifyArguments == Struct(<<F("target", Str)>>)
OAInventorySourceRemoveArguments == Struct(<<F("target", Str)>>)
OAServiceFrame == Struct(<<F("version", Int32), F("service", Str), F("method", Str),
    F("arguments", Raw)>>)
OAServiceReply == Struct(<<F("version", Int32), F("service", Str), F("method", Str),
    F("ok", Bool), F("payload", Raw)>>)
OAServiceError == Struct(<<F("code", Str), F("message", Str)>>)
OAContentReaderOpenResult == Struct(<<F("value", OpenResult)>>)
OAContentReaderReadResult == Struct(<<F("value", ReadResult)>>)
OAContentReaderCloseResult == Struct(<<F("value", CloseResult)>>)
OAContentWriterBeginResult == Struct(<<F("value", BeginResult)>>)
OAContentWriterAppendResult == Struct(<<F("value", AppendResult)>>)
OAContentWriterCommitResult == Struct(<<F("value", CommitResult)>>)
OAContentWriterAbortResult == Struct(<<F("value", AbortResult)>>)
OAContentChangesObserveResult == Struct(<<F("value", ChangePage)>>)
OAContentChangesListResult == Struct(<<F("value", ListingPage)>>)
OAHoldsHoldResult == Struct(<<F("value", HoldResult)>>)
OAHoldsReleaseResult == Struct(<<F("value", ReleaseResult)>>)
OAHoldsRenewResult == Struct(<<F("value", RenewResult)>>)
OAManifestsDescribeResult == Struct(<<F("value", DescribeResult)>>)
OAManifestsPublishResult == Struct(<<F("value", PublishResult)>>)
OAInventoryListResult == Struct(<<F("value", InventoryPage)>>)
OAInventoryListStoreResult == Struct(<<F("value", InventoryPage)>>)
OAInventoryHoldersResult == Struct(<<F("value", InventoryPage)>>)
OAInventoryUnheldResult == Struct(<<F("value", InventoryPage)>>)
OAInventoryFindResult == Struct(<<F("value", InventoryPage)>>)
OAContentRemoverRemoveResult == Struct(<<F("value", RemoveResult)>>)
OAInventorySourceDescribeResult == Struct(<<F("value", SourceDescription)>>)
OAInventorySourceSnapshotResult == Struct(<<F("value", SourcePage)>>)
OAInventorySourceObserveResult == Struct(<<F("value", SourcePage)>>)
OAInventorySourceVerifyResult == Struct(<<F("value", SourcePage)>>)
OAInventorySourceRemoveResult == Struct(<<F("value", RemoveResult)>>)

-----------------------------------------------------------------------------
(* The records of lend.thrift and of api.thrift.                            *)

Lend == Struct(<<F("id", Str), F("engine", Str), F("store", Str), F("object", Str),
    F("name", Str), F("link", Str), F("kind", Enum(Link)), F("size", Int64),
    F("created", Time)>>)
LendResult == Struct(<<F("outcome", Enum(LendOutcome)), Opt("lend", Lend),
    F("detail", Str)>>)
UnlendResult == Struct(<<F("outcome", Enum(UnlendOutcome)), F("detail", Str)>>)
LendPage == Struct(<<F("outcome", Enum(LendsOutcome)), F("lends", List(Lend)),
    F("continuation", Str), F("complete", Bool)>>)
OALendingLendArguments == Struct(<<F("store", Str), F("object", Str), F("engine", Str),
    F("copy", Bool)>>)
OALendingUnlendArguments == Struct(<<F("entry", Str)>>)
OALendingLendsArguments == Struct(<<F("continuation", Str), F("limit", Int64)>>)
OALendingLendResult == Struct(<<F("value", LendResult)>>)
OALendingUnlendResult == Struct(<<F("value", UnlendResult)>>)
OALendingLendsResult == Struct(<<F("value", LendPage)>>)
Ref == Struct(<<F("store", Str), F("digest", Str), F("size", Int64), F("locator", Str)>>)
FindResult == Struct(<<Opt("reference", Ref)>>)

-----------------------------------------------------------------------------
(* The services: the arguments each method takes and what it answers.       *)

ContentReaderService == [contract |-> "abstraction.storage/content-reader@1",
    methods |-> [Open |-> <<OAContentReaderOpenArguments, OAContentReaderOpenResult>>,
                 Read |-> <<OAContentReaderReadArguments, OAContentReaderReadResult>>,
                 Close |-> <<OAContentReaderCloseArguments, OAContentReaderCloseResult>>]]
ContentWriterService == [contract |-> "abstraction.storage/content-writer@1",
    methods |-> [Begin |-> <<OAContentWriterBeginArguments, OAContentWriterBeginResult>>,
                 Append |-> <<OAContentWriterAppendArguments, OAContentWriterAppendResult>>,
                 Commit |-> <<OAContentWriterCommitArguments, OAContentWriterCommitResult>>,
                 Abort |-> <<OAContentWriterAbortArguments, OAContentWriterAbortResult>>]]
ContentChangesService == [contract |-> "abstraction.storage/content-changes@1",
    methods |-> [Observe |-> <<OAContentChangesObserveArguments, OAContentChangesObserveResult>>,
                 List |-> <<OAContentChangesListArguments, OAContentChangesListResult>>]]
HoldsService == [contract |-> "abstraction.storage/holds@1",
    methods |-> [Hold |-> <<OAHoldsHoldArguments, OAHoldsHoldResult>>,
                 Release |-> <<OAHoldsReleaseArguments, OAHoldsReleaseResult>>,
                 Renew |-> <<OAHoldsRenewArguments, OAHoldsRenewResult>>]]
ManifestsService == [contract |-> "abstraction.storage/manifests@1",
    methods |-> [Describe |-> <<OAManifestsDescribeArguments, OAManifestsDescribeResult>>,
                 Publish |-> <<OAManifestsPublishArguments, OAManifestsPublishResult>>]]
InventoryService == [contract |-> "abstraction.storage/inventory@1",
    methods |-> [List |-> <<OAInventoryListArguments, OAInventoryListResult>>,
                 ListStore |-> <<OAInventoryListStoreArguments, OAInventoryListStoreResult>>,
                 Holders |-> <<OAInventoryHoldersArguments, OAInventoryHoldersResult>>,
                 Unheld |-> <<OAInventoryUnheldArguments, OAInventoryUnheldResult>>,
                 Find |-> <<OAInventoryFindArguments, OAInventoryFindResult>>]]
ContentRemoverService == [contract |-> "abstraction.storage/content-remover@1",
    methods |-> [Remove |-> <<OAContentRemoverRemoveArguments, OAContentRemoverRemoveResult>>]]
InventorySourceService == [contract |-> "abstraction.storage/inventory-source@1",
    methods |-> [Describe |-> <<OAInventorySourceDescribeArguments, OAInventorySourceDescribeResult>>,
                 Snapshot |-> <<OAInventorySourceSnapshotArguments, OAInventorySourceSnapshotResult>>,
                 Observe |-> <<OAInventorySourceObserveArguments, OAInventorySourceObserveResult>>,
                 Verify |-> <<OAInventorySourceVerifyArguments, OAInventorySourceVerifyResult>>,
                 Remove |-> <<OAInventorySourceRemoveArguments, OAInventorySourceRemoveResult>>]]
LendingService == [contract |-> "abstraction.storage/lend@1",
    methods |-> [Lend |-> <<OALendingLendArguments, OALendingLendResult>>,
                 Unlend |-> <<OALendingUnlendArguments, OALendingUnlendResult>>,
                 Lends |-> <<OALendingLendsArguments, OALendingLendsResult>>]]

=============================================================================
