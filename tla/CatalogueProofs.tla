-------------------------- MODULE CatalogueProofs --------------------------
(***************************************************************************)
(* The catalogue stays in order and the owner's word stands, for any       *)
(* models, any number of listings under way and any downloads, alone and   *)
(* with the requests that use the provider.                                *)
(***************************************************************************)
EXTENDS ProviderUse, FiniteSetTheorems, TLAPS

(* What says which rows there are, and who is shown.                       *)
RowsInOrder ==
    /\ provider \in ProviderRecord \cup {None}
    /\ model \in [Models -> ModelRecord \cup {None}]
    /\ shown \subseteq Models
    /\ provider = None => \A m \in Models : model[m] = None
    /\ \A m \in ManualModels : model[m].present
    /\ shown = {m \in Models : model[m] # None /\ model[m].present}

(* The rest of the state.                                                  *)
WorkInOrder ==
    /\ machine \subseteq Models
    /\ sync \in [Syncs -> SyncRecord]
    /\ job \in [Jobs -> JobRecord]
    /\ ops \in 0 .. MaxOps
    /\ \A j \in Jobs : WatchBounded(j)

(* Whatever is shown to a key is given to it where it asks for that kind:  *)
(* Router.list and Router.resolve agree on everything but the kind.        *)
LEMMA ListedIsServed ==
  ASSUME NEW m \in Models, NEW localOnly \in BOOLEAN, NEW patterns, NEW endpoint,
         Listed(m, patterns, localOnly)
  PROVE  Serves(m, patterns, localOnly, endpoint) <=> Kind(m) = endpoint
BY DEF Listed, Serves

LEMMA InTwoParts == CatalogueInv <=> RowsInOrder /\ WorkInOrder
<1>1. CatalogueInv => RowsInOrder /\ WorkInOrder
  BY DEF CatalogueInv, CatalogueTypeOK, RowsInOrder, WorkInOrder
<1>2. ASSUME RowsInOrder, WorkInOrder
      PROVE  CatalogueInv
  <2>1. \A m \in Models, localOnly \in BOOLEAN, patterns \in {None} \cup SUBSET Models :
           Listed(m, patterns, localOnly) =>
              \A endpoint \in Endpoints :
                 Serves(m, patterns, localOnly, endpoint) <=> Kind(m) = endpoint
    BY ListedIsServed
  <2> QED BY <1>2, <2>1 DEF CatalogueInv, CatalogueTypeOK, RowsInOrder, WorkInOrder
<1> QED BY <1>1, <1>2

LEMMA CatalogueBegins == Init => CatalogueInv
<1> SUFFICES ASSUME Init
             PROVE  CatalogueInv
  OBVIOUS
<1>1. RowsInOrder
  BY DEF Init, RowsInOrder, ManualModels
<1>2. MaxOps \in Nat /\ MaxFailures \in Nat \ {0} /\ AtFirst \subseteq Models
  BY CatalogueConstants
<1>3. IdleSync \in SyncRecord
  BY DEF IdleSync, SyncRecord, Reasons
<1>4. WorkInOrder
  BY <1>2, <1>3 DEF Init, WorkInOrder, JobRecord, WatchBounded
<1> QED BY <1>1, <1>4, InTwoParts

-----------------------------------------------------------------------------
(* Listings.                                                               *)

(* A row the upstream does not list any more.                              *)
LEMMA RowMarked ==
  ASSUME NEW row \in ModelRecord
  PROVE  LET r == [row EXCEPT !.present = FALSE]
         IN  /\ r \in ModelRecord /\ ~r.present
             /\ r.source = row.source /\ r.enabled = row.enabled /\ r.place = row.place
             /\ r.kind = row.kind
BY DEF ModelRecord

(* A row that a listing has touched.                                       *)
LEMMA AfterListing ==
  ASSUME RowsInOrder, provider # None, NEW list \in SUBSET Models, NEW auto \in BOOLEAN
  PROVE  LET rows == SyncProvider(list, auto)
         IN  /\ rows \in [Models -> ModelRecord \cup {None}]
             /\ \A m \in Models : rows[m] = None <=> m \notin list /\ model[m] = None
             /\ \A m \in Models : rows[m] # None =>
                   /\ rows[m].present <=> m \in list \cup ManualModels
                   /\ rows[m].source = "manual" <=> m \in ManualModels
             /\ \A m \in Models : model[m] # None =>
                   /\ rows[m].enabled = model[m].enabled
                   /\ rows[m].place = model[m].place
                   /\ rows[m].kind = model[m].kind
                   /\ rows[m].source = model[m].source
<1> DEFINE rows == SyncProvider(list, auto)
           New(m) == [source |-> "synced", cloud |-> m \in CloudModels, reported |-> Reports[m],
                      enabled |-> IF auto THEN "unset" ELSE "no",
                      place |-> "unset", kind |-> "unset", present |-> TRUE]
           Again(m) == [model[m] EXCEPT !.cloud = m \in CloudModels, !.reported = Reports[m],
                                        !.present = TRUE]
           Absent(m) == [model[m] EXCEPT !.present = FALSE]
<1> SUFFICES ASSUME NEW m \in Models
             PROVE  /\ rows[m] \in ModelRecord \cup {None}
                    /\ rows[m] = None <=> m \notin list /\ model[m] = None
                    /\ rows[m] # None =>
                          /\ rows[m].present <=> m \in list \cup ManualModels
                          /\ rows[m].source = "manual" <=> m \in ManualModels
                    /\ model[m] # None =>
                          /\ rows[m].enabled = model[m].enabled
                          /\ rows[m].place = model[m].place
                          /\ rows[m].kind = model[m].kind
                          /\ rows[m].source = model[m].source
  BY DEF SyncProvider
<1>1. model[m] \in ModelRecord \cup {None} /\ None \notin ModelRecord
  BY NoneIsNoRow DEF RowsInOrder
<1>2. m \in ManualModels <=> model[m] # None /\ model[m].source = "manual"
  BY DEF ManualModels
<1>3. m \in ManualModels => model[m].present
  BY DEF RowsInOrder
<1>4. CASE m \in list /\ model[m] = None
  <2>1. rows[m] = New(m)
    BY <1>4 DEF SyncProvider
  <2>2. New(m) \in ModelRecord /\ New(m).present /\ New(m).source = "synced"
    BY CatalogueConstants DEF ModelRecord, Words, Places
  <2> QED BY <1>1, <1>2, <1>4, <2>1, <2>2
<1>5. CASE m \in list /\ model[m] # None
  <2>1. rows[m] = Again(m)
    BY <1>5 DEF SyncProvider
  <2>2. /\ Again(m) \in ModelRecord
        /\ Again(m).present /\ Again(m).source = model[m].source
        /\ Again(m).enabled = model[m].enabled /\ Again(m).place = model[m].place
        /\ Again(m).kind = model[m].kind
    <3>1. model[m] \in ModelRecord /\ (m \in CloudModels) \in BOOLEAN /\ Reports[m] \in Kinds
      BY <1>1, <1>5, CatalogueConstants
    <3> QED BY <3>1 DEF ModelRecord
  <2> QED BY <1>1, <1>2, <1>5, <2>1, <2>2
<1>6. CASE m \notin list /\ model[m] # None /\ model[m].source = "synced"
  <2>1. rows[m] = Absent(m)
    BY <1>6 DEF SyncProvider
  <2>2. /\ Absent(m) \in ModelRecord
        /\ ~Absent(m).present /\ Absent(m).source = model[m].source
        /\ Absent(m).enabled = model[m].enabled /\ Absent(m).place = model[m].place
        /\ Absent(m).kind = model[m].kind
    BY <1>1, <1>6, RowMarked
  <2> QED BY <1>1, <1>2, <1>6, <2>1, <2>2
<1>7. CASE m \notin list /\ ~(model[m] # None /\ model[m].source = "synced")
  <2>1. rows[m] = model[m]
    BY <1>7 DEF SyncProvider
  <2>2. model[m] # None => m \in ManualModels
    BY <1>1, <1>2, <1>7 DEF ModelRecord
  <2> QED BY <1>1, <1>2, <1>3, <1>7, <2>1, <2>2
<1> QED BY <1>4, <1>5, <1>6, <1>7

(* What a listing that has ended leaves when it was fetched for a removal. *)
LEMMA PurgedRows ==
  ASSUME NEW s \in Syncs, NEW rows \in [Models -> ModelRecord \cup {None}]
  PROVE  /\ Purged(s, rows) \in [Models -> ModelRecord \cup {None}]
         /\ \A m \in Models :
               Purged(s, rows)[m] = IF m \in Forgotten(s) THEN None ELSE rows[m]
BY DEF Purged, Forgotten

(* A provider's row after a change of one of its fields.                   *)
LEMMA ProviderTouched ==
  ASSUME NEW p \in ProviderRecord
  PROVE  /\ [p EXCEPT !.synced = TRUE, !.error = FALSE] \in ProviderRecord
         /\ [p EXCEPT !.error = TRUE] \in ProviderRecord
         /\ {[p EXCEPT !.enabled = ~@], [p EXCEPT !.auto = ~@], [p EXCEPT !.local = ~@],
             [p EXCEPT !.agent = ~@], [p EXCEPT !.max = 3 - @], [p EXCEPT !.secret = 3 - @]}
              \subseteq ProviderRecord
<1>1. /\ [p EXCEPT !.synced = TRUE, !.error = FALSE] \in ProviderRecord
      /\ [p EXCEPT !.error = TRUE] \in ProviderRecord
  BY DEF ProviderRecord
<1>2. [p EXCEPT !.enabled = ~@] \in ProviderRecord /\ [p EXCEPT !.auto = ~@] \in ProviderRecord
  BY DEF ProviderRecord
<1>3. [p EXCEPT !.local = ~@] \in ProviderRecord /\ [p EXCEPT !.agent = ~@] \in ProviderRecord
  BY DEF ProviderRecord
<1>4. 3 - p.max \in {1, 2} /\ 3 - p.secret \in {1, 2}
  BY DEF ProviderRecord
<1>5. [p EXCEPT !.max = 3 - @] \in ProviderRecord /\ [p EXCEPT !.secret = 3 - @] \in ProviderRecord
  BY <1>4 DEF ProviderRecord
<1> QED BY <1>1, <1>2, <1>3, <1>5

(* A listing on its way.                                                   *)
LEMMA ListingTyped ==
  ASSUME WorkInOrder, NEW s \in Syncs
  PROVE  sync[s].list \in SUBSET Models /\ sync[s].auto \in BOOLEAN
         /\ sync[s].item \in Models \cup {None} /\ sync[s] \in SyncRecord
BY DEF WorkInOrder, SyncRecord

LEMMA ApplyListRows ==
  ASSUME RowsInOrder, WorkInOrder, NEW s \in Syncs, ApplyList(s)
  PROVE  RowsInOrder'
<1>1. CASE provider = None
  BY <1>1 DEF ApplyList, RowsInOrder, ManualModels
<1>2. CASE provider # None
  <2> DEFINE rows == SyncProvider(sync[s].list, sync[s].auto)
  <2>1. sync[s].list \in SUBSET Models /\ sync[s].auto \in BOOLEAN
    BY ListingTyped
  <2>2. /\ rows \in [Models -> ModelRecord \cup {None}]
        /\ \A m \in Models : rows[m] = None <=> m \notin sync[s].list /\ model[m] = None
        /\ \A m \in Models : rows[m] # None =>
              /\ rows[m].present <=> m \in sync[s].list \cup ManualModels
              /\ rows[m].source = "manual" <=> m \in ManualModels
    BY <1>2, <2>1, AfterListing
  <2>3. /\ provider' = [provider EXCEPT !.synced = TRUE, !.error = FALSE]
        /\ model' = Purged(s, rows)
        /\ shown' = (sync[s].list \cup ManualModels) \ Forgotten(s)
    BY <1>2 DEF ApplyList
  <2> HIDE DEF rows
  <2>4. /\ model' \in [Models -> ModelRecord \cup {None}]
        /\ \A m \in Models : model'[m] = IF m \in Forgotten(s) THEN None ELSE rows[m]
    BY <2>2, <2>3, PurgedRows
  <2>5. provider' \in ProviderRecord /\ provider' # None
    BY <1>2, <2>3, ProviderTouched, NoneIsNoRow DEF RowsInOrder
  <2>6. ManualModels \subseteq Models /\ \A m \in ManualModels : model[m] # None
    BY DEF ManualModels
  <2>7. \A m \in Models : m \in shown' <=> model'[m] # None /\ model'[m].present
    BY <2>1, <2>2, <2>3, <2>4, <2>6
  <2>8. shown' \subseteq Models
    BY <2>1, <2>3, <2>6
  <2>9. \A m \in Models : model'[m] # None /\ model'[m].source = "manual" => model'[m].present
    BY <2>2, <2>4
  <2>10. shown' = {m \in Models : model'[m] # None /\ model'[m].present}
    BY <2>7, <2>8
  <2>11. \A m \in ManualModels' : model'[m].present
    BY <2>9 DEF ManualModels
  <2> QED BY <2>4, <2>5, <2>8, <2>10, <2>11 DEF RowsInOrder
<1> QED BY <1>1, <1>2

(* Rows of which some go and the others stay.                              *)
LEMMA FewerRows ==
  ASSUME RowsInOrder, NEW gone,
         provider' \in ProviderRecord \cup {None}, provider' = None => Models \subseteq gone,
         model' \in [Models -> ModelRecord \cup {None}],
         \A m \in Models : model'[m] = IF m \in gone THEN None ELSE model[m],
         shown' = shown \ gone
  PROVE  RowsInOrder'
<1>1. \A m \in Models : m \in shown <=> model[m] # None /\ model[m].present
  BY DEF RowsInOrder
<1>2. \A m \in Models : m \in shown' <=> model'[m] # None /\ model'[m].present
  BY <1>1
<1>3. shown' \subseteq Models
  BY DEF RowsInOrder
<1>4. shown' = {m \in Models : model'[m] # None /\ model'[m].present}
  BY <1>2, <1>3
<1>5. \A m \in ManualModels' : model'[m].present
  BY DEF RowsInOrder, ManualModels
<1>6. provider' = None => \A m \in Models : model'[m] = None
  OBVIOUS
<1> QED BY <1>3, <1>4, <1>5, <1>6 DEF RowsInOrder

LEMMA ListFailsRows ==
  ASSUME RowsInOrder, NEW s \in Syncs, ListFails(s)
  PROVE  RowsInOrder'
<1>1. CASE provider = None
  BY <1>1 DEF ListFails, RowsInOrder, ManualModels
<1>2. CASE provider # None
  <2>1. /\ provider' = [provider EXCEPT !.error = TRUE]
        /\ model' = Purged(s, model)
        /\ shown' = shown \ Forgotten(s)
    BY <1>2 DEF ListFails
  <2>2. provider' \in ProviderRecord /\ provider' # None
    BY <1>2, <2>1, ProviderTouched, NoneIsNoRow DEF RowsInOrder
  <2>3. /\ model' \in [Models -> ModelRecord \cup {None}]
        /\ \A m \in Models : model'[m] = IF m \in Forgotten(s) THEN None ELSE model[m]
    BY <2>1, PurgedRows DEF RowsInOrder
  <2> QED BY <2>1, <2>2, <2>3, FewerRows
<1> QED BY <1>1, <1>2

-----------------------------------------------------------------------------
(* The owner.                                                              *)

LEMMA ChangeProviderRows ==
  ASSUME RowsInOrder, ChangeProvider
  PROVE  RowsInOrder'
<1>1. CASE CreateProvider
  <2>1. PICK auto \in BOOLEAN, agent \in BOOLEAN, max \in {1, 2} :
           provider' = [enabled |-> TRUE, auto |-> auto, local |-> FALSE,
                        agent |-> agent, max |-> max, secret |-> 1,
                        synced |-> FALSE, error |-> FALSE]
    BY <1>1 DEF CreateProvider
  <2>2. provider' \in ProviderRecord
    BY <2>1 DEF ProviderRecord
  <2>3. provider = None /\ UNCHANGED <<model, shown>>
    BY <1>1 DEF CreateProvider
  <2> QED BY <2>2, <2>3 DEF RowsInOrder, ManualModels
<1>2. CASE PatchProvider
  <2>1. provider # None /\ UNCHANGED <<model, shown>>
    BY <1>2 DEF PatchProvider
  <2>2. provider \in ProviderRecord
    BY <2>1 DEF RowsInOrder
  <2>3. provider' \in ProviderRecord /\ provider' # None
    BY <1>2, <2>2, ProviderTouched, NoneIsNoRow DEF PatchProvider
  <2> QED BY <2>1, <2>3 DEF RowsInOrder, ManualModels
<1>3. CASE DeleteProvider
  BY <1>3 DEF DeleteProvider, RowsInOrder, ManualModels
<1> QED BY <1>1, <1>2, <1>3 DEF ChangeProvider

(* One row is replaced by another that is as present as the catalogue now  *)
(* shows it.                                                               *)
LEMMA RowReplaced ==
  ASSUME RowsInOrder, NEW m \in Models, NEW row \in ModelRecord,
         provider # None, provider' = provider,
         model' = [model EXCEPT ![m] = row], row.source = "manual" => row.present,
         shown' = IF row.present THEN shown \cup {m} ELSE shown \ {m}
  PROVE  RowsInOrder'
<1>1. row # None
  BY NoneIsNoRow
<1>2. /\ model' \in [Models -> ModelRecord \cup {None}]
      /\ \A n \in Models : model'[n] = IF n = m THEN row ELSE model[n]
  BY DEF RowsInOrder
<1>3. \A n \in Models : n \in shown <=> model[n] # None /\ model[n].present
  BY DEF RowsInOrder
<1>4. \A n \in Models : n \in shown' <=> model'[n] # None /\ model'[n].present
  BY <1>1, <1>2, <1>3
<1>5. shown' \subseteq Models
  BY DEF RowsInOrder
<1>6. shown' = {n \in Models : model'[n] # None /\ model'[n].present}
  BY <1>4, <1>5
<1>7. \A n \in ManualModels' : model'[n].present
  BY <1>2 DEF RowsInOrder, ManualModels
<1> QED BY <1>2, <1>5, <1>6, <1>7 DEF RowsInOrder

(* What the owner may say of a row.                                        *)
LEMMA RowPatched ==
  ASSUME NEW row \in ModelRecord
  PROVE  /\ \A word \in {"yes", "no"} :
               LET r == [row EXCEPT !.enabled = word]
               IN  r \in ModelRecord /\ r.present = row.present /\ r.source = row.source
         /\ \A place \in Places :
               LET r == [row EXCEPT !.place = place]
               IN  r \in ModelRecord /\ r.present = row.present /\ r.source = row.source
         /\ \A kind \in Kinds \cup {"unset"} :
               LET r == [row EXCEPT !.kind = kind]
               IN  r \in ModelRecord /\ r.present = row.present /\ r.source = row.source
BY DEF ModelRecord, Words

(* The owner patches a row that is there.                                  *)
LEMMA PatchedRows ==
  ASSUME RowsInOrder, NEW m \in Models, model[m] # None, NEW row \in ModelRecord,
         row.present = model[m].present, row.source = model[m].source,
         model' = [model EXCEPT ![m] = row], UNCHANGED <<provider, shown>>
  PROVE  RowsInOrder'
<1>1. provider # None
  BY DEF RowsInOrder
<1>2. m \in shown <=> row.present
  BY DEF RowsInOrder
<1>3. row.source = "manual" => row.present
  BY DEF RowsInOrder, ManualModels
<1>4. shown' = IF row.present THEN shown \cup {m} ELSE shown \ {m}
  BY <1>2
<1> QED BY <1>1, <1>3, <1>4, RowReplaced

LEMMA OwnerRows ==
  ASSUME RowsInOrder, OwnerStep
  PROVE  RowsInOrder'
<1>1. PICK m \in Models : AddManual(m) \/ PatchModel(m) \/ DeleteModel(m)
  BY DEF OwnerStep
<1>2. CASE AddManual(m)
  <2>1. PICK draft \in Drafts :
           model' = [model EXCEPT ![m] =
                       [source |-> "manual", cloud |-> FALSE, reported |-> Guesses[m],
                        enabled |-> "unset", place |-> draft.place, kind |-> draft.kind,
                        present |-> TRUE]]
    BY <1>2 DEF AddManual
  <2> DEFINE row == [source |-> "manual", cloud |-> FALSE, reported |-> Guesses[m],
                     enabled |-> "unset", place |-> draft.place, kind |-> draft.kind,
                     present |-> TRUE]
  <2>2. row \in ModelRecord /\ row.present
    BY CatalogueConstants DEF ModelRecord, Words, Places
  <2>3. provider # None /\ provider' = provider /\ shown' = shown \cup {m}
    BY <1>2 DEF AddManual
  <2>4. model' = [model EXCEPT ![m] = row]
    BY <2>1
  <2> HIDE DEF row
  <2> QED BY <2>2, <2>3, <2>4, RowReplaced
<1>3. CASE PatchModel(m) \/ (DeleteModel(m) /\ model[m].source = "synced")
  <2>1. model[m] # None /\ UNCHANGED <<provider, shown>> /\ model[m] \in ModelRecord
    BY <1>3 DEF PatchModel, DeleteModel, RowsInOrder
  <2>2. \/ \E word \in {"yes", "no"} : model' = [model EXCEPT ![m] = [model[m] EXCEPT !.enabled = word]]
        \/ \E place \in Places : model' = [model EXCEPT ![m] = [model[m] EXCEPT !.place = place]]
        \/ \E kind \in Kinds \cup {"unset"} :
              model' = [model EXCEPT ![m] = [model[m] EXCEPT !.kind = kind]]
    BY <1>3 DEF PatchModel, DeleteModel
  <2>3. PICK row \in ModelRecord : /\ row.present = model[m].present
                                   /\ row.source = model[m].source
                                   /\ model' = [model EXCEPT ![m] = row]
    BY <2>1, <2>2, RowPatched
  <2> QED BY <2>1, <2>3, PatchedRows
<1>4. CASE DeleteModel(m) /\ model[m].source # "synced"
  <2>1. model' = [model EXCEPT ![m] = None] /\ shown' = shown \ {m} /\ provider' = provider
    BY <1>4 DEF DeleteModel
  <2>2. provider # None
    BY <1>4 DEF DeleteModel, RowsInOrder
  <2>3. /\ model' \in [Models -> ModelRecord \cup {None}]
        /\ \A n \in Models : model'[n] = IF n \in {m} THEN None ELSE model[n]
        /\ provider' \in ProviderRecord \cup {None}
    BY <2>1 DEF RowsInOrder
  <2> QED BY <2>1, <2>2, <2>3, FewerRows
<1> QED BY <1>1, <1>2, <1>3, <1>4

-----------------------------------------------------------------------------
(* Listings under way and downloads.                                       *)

(* What a step may do to them.                                             *)
LEMMA WorkMoves ==
  ASSUME WorkInOrder, machine' \subseteq Models, sync' \in [Syncs -> SyncRecord],
         job' \in [Jobs -> JobRecord], \A j \in Jobs : WatchBounded(j)', Op \/ UNCHANGED ops
  PROVE  WorkInOrder'
<1>1. ops' \in 0 .. MaxOps
  BY CatalogueConstants DEF WorkInOrder, Op
<1> QED BY <1>1 DEF WorkInOrder

(* Steps that leave the downloads alone.                                   *)
LEMMA SyncMoves ==
  ASSUME WorkInOrder, machine' \subseteq Models, sync' \in [Syncs -> SyncRecord],
         UNCHANGED job, Op \/ UNCHANGED ops
  PROVE  WorkInOrder'
<1>1. job' \in [Jobs -> JobRecord] /\ \A j \in Jobs : WatchBounded(j)'
  BY DEF WorkInOrder, WatchBounded
<1> QED BY <1>1, WorkMoves

(* Steps of one download.                                                  *)
LEMMA JobMoves ==
  ASSUME WorkInOrder, machine' \subseteq Models, sync' \in [Syncs -> SyncRecord],
         NEW j \in Jobs, NEW row \in JobRecord, job' = [job EXCEPT ![j] = row],
         row.watched => row.failures < MaxFailures, row.asked => row.watched,
         row.status = "none" => ~row.watched /\ row.failures = 0,
         Op \/ UNCHANGED ops
  PROVE  WorkInOrder'
<1>1. job' \in [Jobs -> JobRecord] /\ \A k \in Jobs : job'[k] = IF k = j THEN row ELSE job[k]
  BY DEF WorkInOrder
<1>2. \A k \in Jobs : WatchBounded(k)'
  BY <1>1 DEF WorkInOrder, WatchBounded
<1> QED BY <1>1, <1>2, WorkMoves

LEMMA IdleSyncTyped == IdleSync \in SyncRecord
BY DEF IdleSync, SyncRecord, Reasons

LEMMA SyncOneTyped ==
  ASSUME RowsInOrder, WorkInOrder, NEW s \in Syncs, NEW why \in Reasons,
         NEW item \in Models \cup {None}, SyncOne(s, why, item)
  PROVE  sync' \in [Syncs -> SyncRecord]
<1>1. CASE provider = None
  BY <1>1 DEF SyncOne, WorkInOrder
<1>2. CASE provider # None
  <2>1. provider.auto \in BOOLEAN
    BY <1>2 DEF RowsInOrder, ProviderRecord
  <2>2. [at |-> "listing", why |-> why, item |-> item, auto |-> provider.auto, list |-> {}]
           \in SyncRecord
    BY <2>1 DEF SyncRecord
  <2> QED BY <1>2, <2>2 DEF SyncOne, WorkInOrder
<1> QED BY <1>1, <1>2

(* A listing's record with another stage, and what else moves with it.     *)
LEMMA SyncTouched ==
  ASSUME NEW row \in SyncRecord
  PROVE  /\ \A list \in SUBSET Models : [row EXCEPT !.at = "answered", !.list = list] \in SyncRecord
         /\ \A auto \in BOOLEAN : [row EXCEPT !.at = "listing", !.auto = auto] \in SyncRecord
         /\ [row EXCEPT !.at = "probing", !.why = "timer"] \in SyncRecord
         /\ \A m \in Models : [row EXCEPT !.at = "removing", !.why = "removal", !.item = m] \in SyncRecord
<1>1. \A list \in SUBSET Models : [row EXCEPT !.at = "answered", !.list = list] \in SyncRecord
  BY DEF SyncRecord
<1>2. \A auto \in BOOLEAN : [row EXCEPT !.at = "listing", !.auto = auto] \in SyncRecord
  BY DEF SyncRecord
<1>3. [row EXCEPT !.at = "probing", !.why = "timer"] \in SyncRecord
  BY DEF SyncRecord, Reasons
<1>4. \A m \in Models : [row EXCEPT !.at = "removing", !.why = "removal", !.item = m] \in SyncRecord
  BY DEF SyncRecord, Reasons
<1> QED BY <1>1, <1>2, <1>3, <1>4

LEMMA SyncStepWork ==
  ASSUME RowsInOrder, WorkInOrder, NEW s \in Syncs, SyncStep(s)
  PROVE  WorkInOrder'
<1>1. sync[s] \in SyncRecord /\ machine \in SUBSET Models /\ sync \in [Syncs -> SyncRecord]
  BY DEF WorkInOrder
<1>2. UNCHANGED <<machine, job, ops>>
  BY DEF SyncStep, UpstreamAnswers, ApplyList, ListFails, ProbeEnds
<1>3. sync' \in [Syncs -> SyncRecord]
  <2>1. CASE UpstreamAnswers(s)
    <3>1. [sync[s] EXCEPT !.at = "answered", !.list = machine] \in SyncRecord
      BY <1>1, SyncTouched
    <3>2. sync' = [sync EXCEPT ![s] = [sync[s] EXCEPT !.at = "answered", !.list = machine]]
      BY <2>1 DEF UpstreamAnswers
    <3> QED BY <1>1, <3>1, <3>2
  <2>2. CASE ApplyList(s) \/ ListFails(s)
    BY <1>1, <2>2, IdleSyncTyped DEF ApplyList, ListFails
  <2>3. CASE ProbeEnds(s)
    <3>1. CASE provider # None
      <4>1. provider.auto \in BOOLEAN
        BY <3>1 DEF RowsInOrder, ProviderRecord
      <4>2. [sync[s] EXCEPT !.at = "listing", !.auto = provider.auto] \in SyncRecord
        BY <1>1, <4>1, SyncTouched
      <4>3. \/ sync' = [sync EXCEPT ![s] = IdleSync]
            \/ sync' = [sync EXCEPT ![s] = [sync[s] EXCEPT !.at = "listing", !.auto = provider.auto]]
        BY <2>3 DEF ProbeEnds
      <4> QED BY <1>1, <4>2, <4>3, IdleSyncTyped
    <3>2. CASE provider = None
      BY <1>1, <2>3, <3>2, IdleSyncTyped DEF ProbeEnds
    <3> QED BY <3>1, <3>2
  <2> QED BY <2>1, <2>2, <2>3 DEF SyncStep
<1> QED BY <1>1, <1>2, <1>3, SyncMoves

LEMMA RemovalStepWork ==
  ASSUME RowsInOrder, WorkInOrder, NEW s \in Syncs, RemovalStep(s)
  PROVE  WorkInOrder'
<1>1. sync[s] \in SyncRecord /\ machine \subseteq Models /\ sync \in [Syncs -> SyncRecord]
  BY DEF WorkInOrder
<1>2. UNCHANGED <<job, ops>> /\ machine' \subseteq Models
  BY <1>1 DEF RemovalStep, RemovalAnswered, RemovalRefused
<1>3. CASE provider = None \/ RemovalRefused(s)
  <2>1. sync' = [sync EXCEPT ![s] = IdleSync]
    BY <1>3 DEF RemovalStep, RemovalAnswered, RemovalRefused
  <2>2. sync' \in [Syncs -> SyncRecord]
    BY <1>1, <2>1, IdleSyncTyped
  <2> QED BY <1>2, <2>2, SyncMoves
<1>4. CASE provider # None /\ RemovalAnswered(s)
  <2>1. provider.auto \in BOOLEAN
    BY <1>4 DEF RowsInOrder, ProviderRecord
  <2>2. [sync[s] EXCEPT !.at = "listing", !.auto = provider.auto] \in SyncRecord
    BY <1>1, <2>1, SyncTouched
  <2>3. sync' = [sync EXCEPT ![s] = [sync[s] EXCEPT !.at = "listing", !.auto = provider.auto]]
    BY <1>1, <1>4 DEF RemovalAnswered
  <2>4. sync' \in [Syncs -> SyncRecord]
    BY <1>1, <2>2, <2>3
  <2> QED BY <1>2, <2>4, SyncMoves
<1> QED BY <1>3, <1>4 DEF RemovalStep

LEMMA ListingBegins ==
  ASSUME RowsInOrder, WorkInOrder, NEW s \in Syncs,
         AskSync(s) \/ TimerTurn(s) \/ \E m \in Models : AskRemoval(s, m)
  PROVE  WorkInOrder'
<1>1. Op /\ UNCHANGED <<machine, job>> /\ machine \subseteq Models /\ sync \in [Syncs -> SyncRecord]
  BY DEF AskSync, TimerTurn, AskRemoval, WorkInOrder
<1>2. "asked" \in Reasons /\ "timer" \in Reasons
  BY DEF Reasons
<1>3. CASE AskSync(s)
  BY <1>1, <1>2, <1>3, SyncOneTyped, SyncMoves DEF AskSync
<1>4. CASE TimerTurn(s)
  <2>1. CASE SyncOne(s, "timer", None)
    BY <1>1, <1>2, <2>1, SyncOneTyped, SyncMoves
  <2>2. CASE sync' = [sync EXCEPT ![s] = [IdleSync EXCEPT !.at = "probing", !.why = "timer"]]
    <3>1. sync' \in [Syncs -> SyncRecord]
      BY <1>1, <2>2, SyncTouched, IdleSyncTyped
    <3> QED BY <1>1, <3>1, SyncMoves
  <2> QED BY <1>4, <2>1, <2>2 DEF TimerTurn
<1>5. CASE \E m \in Models : AskRemoval(s, m)
  <2>1. PICK m \in Models :
           sync' = [sync EXCEPT ![s] = [IdleSync EXCEPT !.at = "removing", !.why = "removal", !.item = m]]
    BY <1>5 DEF AskRemoval
  <2>2. sync' \in [Syncs -> SyncRecord]
    BY <1>1, <2>1, SyncTouched, IdleSyncTyped
  <2> QED BY <1>1, <2>2, SyncMoves
<1> QED BY <1>3, <1>4, <1>5

(* What happens to the record of a download.                               *)
LEMMA JobTouched ==
  ASSUME NEW row \in JobRecord
  PROVE  /\ \A heard \in BOOLEAN : [row EXCEPT !.status = "running", !.watched = heard] \in JobRecord
         /\ \A end \in {"succeeded", "failed", "gone"} : [row EXCEPT !.status = end] \in JobRecord
         /\ \A on, marked, asked \in BOOLEAN :
               [row EXCEPT !.marked = marked, !.watched = on, !.asked = asked] \in JobRecord
         /\ \A on, asked \in BOOLEAN : [row EXCEPT !.watched = on, !.asked = asked] \in JobRecord
         /\ [row EXCEPT !.watched = FALSE] \in JobRecord
         /\ [row EXCEPT !.asked = TRUE] \in JobRecord
         /\ \A n \in 0 .. MaxFailures, on \in BOOLEAN :
               [row EXCEPT !.failures = n, !.asked = FALSE, !.watched = on] \in JobRecord
         /\ [row EXCEPT !.failures = 0, !.asked = FALSE] \in JobRecord
<1>1. \A heard \in BOOLEAN : [row EXCEPT !.status = "running", !.watched = heard] \in JobRecord
  BY DEF JobRecord
<1>2. \A end \in {"succeeded", "failed", "gone"} : [row EXCEPT !.status = end] \in JobRecord
  BY DEF JobRecord
<1>3. \A on, marked, asked \in BOOLEAN :
         [row EXCEPT !.marked = marked, !.watched = on, !.asked = asked] \in JobRecord
  BY DEF JobRecord
<1>4. /\ \A on, asked \in BOOLEAN : [row EXCEPT !.watched = on, !.asked = asked] \in JobRecord
      /\ [row EXCEPT !.watched = FALSE] \in JobRecord
      /\ [row EXCEPT !.asked = TRUE] \in JobRecord
  BY DEF JobRecord
<1>5. \A n \in 0 .. MaxFailures, on \in BOOLEAN :
         [row EXCEPT !.failures = n, !.asked = FALSE, !.watched = on] \in JobRecord
  BY DEF JobRecord
<1>6. [row EXCEPT !.failures = 0, !.asked = FALSE] \in JobRecord
  <2>1. 0 \in 0 .. MaxFailures
    BY CatalogueConstants
  <2> QED BY <2>1 DEF JobRecord
<1> QED BY <1>1, <1>2, <1>3, <1>4, <1>5, <1>6

(* A finished download is heard of, which may begin a listing.             *)
LEMMA AfterFinishedWork ==
  ASSUME RowsInOrder, WorkInOrder, NEW j \in Jobs, NEW on \in BOOLEAN, AfterFinished(j, on),
         on => job[j].watched, job[j].status # "none", UNCHANGED <<machine, ops>>
  PROVE  WorkInOrder'
<1>1. /\ job[j] \in JobRecord /\ machine' \subseteq Models /\ sync \in [Syncs -> SyncRecord]
      /\ job[j].watched => job[j].failures < MaxFailures
      /\ (job[j].asked /\ on) \in BOOLEAN
  BY DEF WorkInOrder, WatchBounded
<1>2. CASE job[j].status = "succeeded" /\ ~job[j].marked
  <2>1. PICK s \in Syncs : SyncOne(s, "download", None)
    BY <1>2 DEF AfterFinished
  <2>2. sync' \in [Syncs -> SyncRecord]
    BY <2>1, SyncOneTyped DEF Reasons
  <2> DEFINE row == [job[j] EXCEPT !.marked = TRUE, !.watched = on,
                                   !.asked = job[j].asked /\ on]
  <2>3. row \in JobRecord
    BY <1>1, JobTouched
  <2>4. /\ row.watched = on /\ row.failures = job[j].failures /\ row.status = job[j].status
        /\ row.asked => on
    BY <1>1 DEF JobRecord
  <2>5. job' = [job EXCEPT ![j] = row]
    BY <1>2 DEF AfterFinished
  <2> HIDE DEF row
  <2> QED BY <1>1, <2>2, <2>3, <2>4, <2>5, JobMoves
<1>3. CASE ~(job[j].status = "succeeded" /\ ~job[j].marked)
  <2> DEFINE row == [job[j] EXCEPT !.watched = on, !.asked = job[j].asked /\ on]
  <2>1. row \in JobRecord
    BY <1>1, JobTouched
  <2>2. /\ row.watched = on /\ row.failures = job[j].failures /\ row.status = job[j].status
        /\ row.asked => on
    BY <1>1 DEF JobRecord
  <2>3. job' = [job EXCEPT ![j] = row] /\ sync' = sync
    BY <1>3 DEF AfterFinished
  <2> HIDE DEF row
  <2> QED BY <1>1, <2>1, <2>2, <2>3, JobMoves
<1> QED BY <1>2, <1>3

LEMMA DownloadWork ==
  ASSUME WorkInOrder, NEW j \in Jobs, Pull(j) \/ DownloadEnds(j) \/ AgentForgets(j)
  PROVE  WorkInOrder'
<1>1. /\ job[j] \in JobRecord /\ machine \subseteq Models /\ sync \in [Syncs -> SyncRecord]
      /\ WatchBounded(j) /\ MaxFailures \in Nat \ {0} /\ TargetOf[j] \in Models
  BY CatalogueConstants DEF WorkInOrder
<1>2. CASE Pull(j)
  <2>1. PICK heard \in BOOLEAN :
           job' = [job EXCEPT ![j] = [job[j] EXCEPT !.status = "running", !.watched = heard]]
    BY <1>2 DEF Pull
  <2> DEFINE row == [job[j] EXCEPT !.status = "running", !.watched = heard]
  <2>2. row \in JobRecord
    BY <1>1, JobTouched
  <2>3. row.status = "running" /\ row.failures = 0 /\ row.failures < MaxFailures /\ ~row.asked
    BY <1>1, <1>2 DEF JobRecord, Pull, WatchBounded
  <2>4. job' = [job EXCEPT ![j] = row] /\ Op /\ UNCHANGED <<machine, sync>>
    BY <1>2, <2>1 DEF Pull
  <2> HIDE DEF row
  <2> QED BY <1>1, <2>2, <2>3, <2>4, JobMoves
<1>3. CASE DownloadEnds(j) \/ AgentForgets(j)
  <2>1. PICK end \in {"succeeded", "failed", "gone"} :
           job' = [job EXCEPT ![j] = [job[j] EXCEPT !.status = end]]
    BY <1>3 DEF DownloadEnds, AgentForgets
  <2> DEFINE row == [job[j] EXCEPT !.status = end]
  <2>2. row \in JobRecord
    BY <1>1, JobTouched
  <2>3. /\ row.status = end /\ row.watched = job[j].watched /\ row.failures = job[j].failures
        /\ row.asked = job[j].asked
    BY <1>1 DEF JobRecord
  <2>4. job' = [job EXCEPT ![j] = row] /\ (Op \/ UNCHANGED ops) /\ sync' = sync
    BY <1>3, <2>1 DEF DownloadEnds, AgentForgets
  <2>5. machine' \subseteq Models
    BY <1>1, <1>3 DEF DownloadEnds, AgentForgets
  <2> HIDE DEF row
  <2> QED BY <1>1, <2>2, <2>3, <2>4, <2>5, JobMoves DEF WatchBounded
<1> QED BY <1>2, <1>3

LEMMA WatchWork ==
  ASSUME RowsInOrder, WorkInOrder, NEW j \in Jobs, WatchStep(j) \/ PanelHears(j)
  PROVE  WorkInOrder'
<1>1. /\ job[j] \in JobRecord /\ machine' \subseteq Models /\ sync \in [Syncs -> SyncRecord]
      /\ WatchBounded(j) /\ MaxFailures \in Nat \ {0} /\ UNCHANGED <<machine, ops>>
  BY CatalogueConstants DEF WorkInOrder, WatchStep, WatchTurn, WatchHears, WatchFails, PanelHears
<1>2. CASE PanelHears(j)
  <2>1. job[j].watched \in BOOLEAN
    BY <1>1 DEF JobRecord
  <2> QED BY <1>1, <1>2, <2>1, AfterFinishedWork DEF PanelHears
<1>3. CASE WatchFails(j)
  <2> DEFINE row == [job[j] EXCEPT !.failures = job[j].failures + 1, !.asked = FALSE,
                                   !.watched = job[j].failures + 1 < MaxFailures]
  <2>1. job[j].watched /\ job[j].failures \in 0 .. MaxFailures /\ job[j].failures < MaxFailures
    BY <1>1, <1>3 DEF WatchFails, WatchBounded, JobRecord
  <2>2. job[j].failures + 1 \in 0 .. MaxFailures /\ (job[j].failures + 1 < MaxFailures) \in BOOLEAN
    BY <1>1, <2>1
  <2>3. row \in JobRecord
    BY <1>1, <2>2, JobTouched
  <2>4. /\ row.watched => row.failures < MaxFailures
        /\ row.status # "none" /\ ~row.asked
    BY <1>1, <2>1 DEF JobRecord, WatchBounded
  <2>5. job' = [job EXCEPT ![j] = row] /\ sync' = sync
    BY <1>3 DEF WatchFails
  <2> HIDE DEF row
  <2> QED BY <1>1, <2>3, <2>4, <2>5, JobMoves
<1>4. CASE WatchHears(j)
  <2>1. job[j].watched /\ job[j].status # "none"
    BY <1>1, <1>4 DEF WatchHears, WatchBounded
  <2>2. CASE job[j].status = "gone"
    <3> DEFINE row == [job[j] EXCEPT !.watched = FALSE, !.asked = FALSE]
    <3>1. row \in JobRecord
      BY <1>1, JobTouched
    <3>2. ~row.watched /\ ~row.asked /\ row.status # "none"
      BY <1>1, <2>1 DEF JobRecord
    <3>3. job' = [job EXCEPT ![j] = row] /\ sync' = sync
      BY <1>4, <2>2 DEF WatchHears
    <3> HIDE DEF row
    <3> QED BY <1>1, <3>1, <3>2, <3>3, JobMoves
  <2>3. CASE job[j].status = "running"
    <3> DEFINE row == [job[j] EXCEPT !.failures = 0, !.asked = FALSE]
    <3>1. row \in JobRecord
      BY <1>1, JobTouched
    <3>2. row.failures = 0 /\ row.status = "running" /\ row.failures < MaxFailures /\ ~row.asked
      BY <1>1, <2>3 DEF JobRecord
    <3>3. job' = [job EXCEPT ![j] = row] /\ sync' = sync
      BY <1>4, <2>3 DEF WatchHears
    <3> HIDE DEF row
    <3> QED BY <1>1, <3>1, <3>2, <3>3, JobMoves
  <2>4. CASE job[j].status \notin {"gone", "running"}
    <3>1. AfterFinished(j, FALSE)
      BY <1>4, <2>4 DEF WatchHears
    <3> QED BY <1>1, <2>1, <3>1, AfterFinishedWork
  <2> QED BY <2>2, <2>3, <2>4
<1>5. CASE WatchTurn(j)
  <2>1. job[j].watched /\ ~job[j].asked /\ job[j].status # "none" /\ sync' = sync
    BY <1>1, <1>5 DEF WatchTurn, WatchBounded
  <2>2. PICK row \in {[job[j] EXCEPT !.watched = FALSE], [job[j] EXCEPT !.asked = TRUE]} :
           job' = [job EXCEPT ![j] = row]
    BY <1>5 DEF WatchTurn
  <2>3. row \in JobRecord
    BY <1>1, <2>2, JobTouched
  <2>4. /\ row.failures = job[j].failures /\ row.status = job[j].status
        /\ row.asked => row.watched
    BY <1>1, <2>1, <2>2 DEF JobRecord
  <2> QED BY <1>1, <2>1, <2>2, <2>3, <2>4, JobMoves DEF WatchBounded
<1> QED BY <1>2, <1>3, <1>4, <1>5 DEF WatchStep

LEMMA ChangeProviderWork ==
  ASSUME WorkInOrder, ChangeProvider
  PROVE  WorkInOrder'
<1>1. Op /\ UNCHANGED <<machine, job>> /\ machine \subseteq Models /\ sync \in [Syncs -> SyncRecord]
  BY DEF ChangeProvider, CreateProvider, PatchProvider, DeleteProvider, WorkInOrder
<1>2. CASE sync' = sync
  BY <1>1, <1>2, SyncMoves
<1>3. CASE CreateProvider /\ sync' # sync
  <2>1. PICK auto \in BOOLEAN, s \in Syncs :
           sync' = [sync EXCEPT ![s] = [IdleSync EXCEPT !.at = "listing", !.auto = auto]]
    BY <1>3 DEF CreateProvider
  <2>2. sync' \in [Syncs -> SyncRecord]
    BY <1>1, <2>1, SyncTouched, IdleSyncTyped
  <2> QED BY <1>1, <2>2, SyncMoves
<1> QED BY <1>2, <1>3 DEF ChangeProvider, PatchProvider, DeleteProvider

LEMMA RestartWork ==
  ASSUME WorkInOrder, RestartHub
  PROVE  WorkInOrder'
<1>1. /\ Op /\ machine' = machine /\ machine \subseteq Models /\ MaxFailures \in Nat \ {0}
      /\ sync' = [s \in Syncs |-> IdleSync]
      /\ job' = [j \in Jobs |-> [job[j] EXCEPT !.watched = FALSE, !.asked = FALSE,
                                                 !.marked = FALSE, !.failures = 0]]
  BY CatalogueConstants DEF RestartHub, WorkInOrder
<1>2. ASSUME NEW j \in Jobs
      PROVE  job'[j] \in JobRecord /\ ~job'[j].watched /\ ~job'[j].asked /\ job'[j].failures = 0
  <2> DEFINE row == [job[j] EXCEPT !.watched = FALSE, !.asked = FALSE, !.marked = FALSE,
                                   !.failures = 0]
  <2>1. job[j] \in JobRecord
    BY DEF WorkInOrder
  <2>4. 0 \in 0 .. MaxFailures
    BY CatalogueConstants
  <2>2. row \in JobRecord /\ ~row.watched /\ ~row.asked /\ row.failures = 0
    BY <2>1, <2>4 DEF JobRecord
  <2>3. job'[j] = row
    BY <1>1
  <2> QED BY <2>2, <2>3
<1>3. job' \in [Jobs -> JobRecord]
  BY <1>1, <1>2
<1>4. \A j \in Jobs : WatchBounded(j)'
  BY <1>1, <1>2 DEF WatchBounded
<1>5. sync' \in [Syncs -> SyncRecord]
  BY <1>1, IdleSyncTyped
<1> QED BY <1>1, <1>3, <1>4, <1>5, WorkMoves

-----------------------------------------------------------------------------
(* Every step.                                                             *)

LEMMA RowsStay ==
  ASSUME RowsInOrder, UNCHANGED <<provider, model, shown>>
  PROVE  RowsInOrder'
BY DEF RowsInOrder, ManualModels

LEMMA WorkStays ==
  ASSUME WorkInOrder, machine' \subseteq Models, UNCHANGED <<sync, job>>, Op \/ UNCHANGED ops
  PROVE  WorkInOrder'
BY SyncMoves DEF WorkInOrder

LEMMA OthersInOrder ==
  ASSUME RowsInOrder, WorkInOrder, Others
  PROVE  RowsInOrder' /\ WorkInOrder'
<1>1. machine \subseteq Models
  BY DEF WorkInOrder
<1>2. CASE OwnerStep
  <2>1. Op /\ UNCHANGED <<machine, sync, job>>
    BY <1>2 DEF OwnerStep, AddManual, PatchModel, DeleteModel
  <2> QED BY <1>1, <1>2, <2>1, OwnerRows, WorkStays
<1>3. CASE \E s \in Syncs : AskSync(s) \/ TimerTurn(s) \/ \E m \in Models : AskRemoval(s, m)
  <2>1. UNCHANGED <<provider, model, shown>>
    BY <1>3 DEF AskSync, TimerTurn, AskRemoval
  <2> QED BY <1>3, <2>1, RowsStay, ListingBegins
<1>4. CASE \E s \in Syncs : SyncStep(s)
  <2>1. PICK s \in Syncs : SyncStep(s)
    BY <1>4
  <2>2. RowsInOrder'
    BY <2>1, ApplyListRows, ListFailsRows, RowsStay DEF SyncStep, UpstreamAnswers, ProbeEnds
  <2> QED BY <2>1, <2>2, SyncStepWork
<1>5. CASE \E s \in Syncs : RemovalStep(s)
  <2>1. UNCHANGED <<provider, model, shown>>
    BY <1>5 DEF RemovalStep, RemovalAnswered, RemovalRefused
  <2> QED BY <1>5, <2>1, RowsStay, RemovalStepWork
<1>6. CASE \E j \in Jobs : Pull(j) \/ DownloadEnds(j) \/ AgentForgets(j)
  <2>1. UNCHANGED <<provider, model, shown>>
    BY <1>6 DEF Pull, DownloadEnds, AgentForgets
  <2> QED BY <1>6, <2>1, RowsStay, DownloadWork
<1>7. CASE \E j \in Jobs : WatchStep(j) \/ PanelHears(j)
  <2>1. UNCHANGED <<provider, model, shown>>
    BY <1>7 DEF WatchStep, WatchTurn, WatchHears, WatchFails, PanelHears
  <2> QED BY <1>7, <2>1, RowsStay, WatchWork
<1>8. CASE \E m \in Models : MachineChanges(m)
  <2>1. Op /\ UNCHANGED <<provider, model, shown, sync, job>> /\ machine' \subseteq Models
    BY <1>1, <1>8 DEF MachineChanges
  <2> QED BY <2>1, RowsStay, WorkStays
<1> QED BY <1>2, <1>3, <1>4, <1>5, <1>6, <1>7, <1>8 DEF Others

LEMMA CatalogueStep == CatalogueInv /\ [Next]_vars => CatalogueInv'
<1> SUFFICES ASSUME RowsInOrder, WorkInOrder, [Next]_vars
             PROVE  RowsInOrder' /\ WorkInOrder'
  <2>1. CatalogueInv' <=> RowsInOrder' /\ WorkInOrder'
    BY InTwoParts, PTL
  <2> QED BY <2>1, InTwoParts
<1>1. CASE ChangeProvider
  BY <1>1, ChangeProviderRows, ChangeProviderWork
<1>2. CASE Others
  BY <1>2, OthersInOrder
<1>3. CASE RestartHub
  <2>1. UNCHANGED <<provider, model, shown>>
    BY <1>3 DEF RestartHub
  <2> QED BY <1>3, <2>1, RowsStay, RestartWork
<1>4. CASE UNCHANGED vars
  <2>1. UNCHANGED <<provider, model, shown, sync, job, ops>> /\ machine' \subseteq Models
    BY <1>4 DEF vars, WorkInOrder
  <2> QED BY <2>1, RowsStay, WorkStays
<1> QED BY <1>1, <1>2, <1>3, <1>4 DEF Next

(* The requests beside it do not touch the catalogue.                      *)
LEMMA UseIsNext == [UseNext]_allVars => [Next]_vars
<1>1. UseNext => Next \/ UNCHANGED vars
  BY DEF UseNext, Next
<1> QED BY <1>1 DEF allVars

(* The catalogue is in order in every reachable state, by itself: the rows *)
(* are those of the last list applied and of the owner, watches are        *)
(* bounded, and what a key is shown is given to it by the endpoint of the  *)
(* kind shown ...                                                          *)
THEOREM CatalogueInvariant == Spec => []CatalogueInv
BY CatalogueBegins, CatalogueStep, PTL DEF Spec

(* ... and with requests that use the provider while it is changed.        *)
THEOREM CatalogueInvariantInUse == UseSpec => []CatalogueInv
<1>1. UseInit => CatalogueInv
  BY CatalogueBegins DEF UseInit
<1> QED BY <1>1, CatalogueStep, UseIsNext, PTL DEF UseSpec

-----------------------------------------------------------------------------
(* The owner's word.                                                       *)

(* Rows that are kept or purged, and otherwise say what they said.         *)
LEMMA KeptOrPurged ==
  ASSUME NEW s \in Syncs, NEW rows \in [Models -> ModelRecord \cup {None}],
         \A m \in Models : model[m] # None =>
            /\ rows[m] # None /\ rows[m].enabled = model[m].enabled
            /\ rows[m].place = model[m].place /\ rows[m].kind = model[m].kind
            /\ rows[m].source = model[m].source,
         model' = Purged(s, rows)
  PROVE  WordStands
<1>1. \A m \in Models : model'[m] = IF m \in Forgotten(s) THEN None ELSE rows[m]
  BY PurgedRows
<1>2. \A m \in Forgotten(s) : sync[s].why = "removal" /\ sync[s].item = m
  BY DEF Forgotten
<1> QED BY <1>1, <1>2 DEF WordStands

LEMMA StepKeepsWord == CatalogueInv /\ [Next]_vars => WordStands
<1> SUFFICES ASSUME RowsInOrder, WorkInOrder, [Next]_vars
             PROVE  WordStands
  BY InTwoParts
<1>1. CASE UNCHANGED model \/ OwnerStep \/ DeleteProvider
  <2>1. CASE UNCHANGED model
    BY <2>1 DEF WordStands
  <2>3. CASE DeleteProvider
    <3>1. \A m \in Models : model'[m] = None
      BY <2>3 DEF DeleteProvider
    <3> QED BY <2>3, <3>1, Zenon DEF WordStands
  <2>2. CASE OwnerStep
    <3>1. PICK n \in Models : AddManual(n) \/ PatchModel(n) \/ DeleteModel(n)
      BY <2>2 DEF OwnerStep
    <3>2. \A m \in Models : m # n => model'[m] = model[m]
      BY <3>1 DEF AddManual, PatchModel, DeleteModel, RowsInOrder
    <3>3. model[n] # None /\ model'[n] = None => DeleteModel(n)
      <4>1. ASSUME PatchModel(n)
            PROVE  model'[n] # None
        <5>1. model[n] \in ModelRecord /\ None \notin ModelRecord
          BY <4>1, NoneIsNoRow DEF PatchModel, RowsInOrder
        <5>2. \/ \E word \in {"yes", "no"} : model'[n] = [model[n] EXCEPT !.enabled = word]
              \/ \E place \in Places : model'[n] = [model[n] EXCEPT !.place = place]
              \/ \E kind \in Kinds \cup {"unset"} : model'[n] = [model[n] EXCEPT !.kind = kind]
          BY <4>1 DEF PatchModel, RowsInOrder
        <5> QED BY <5>1, <5>2, RowPatched
      <4> QED BY <3>1, <4>1 DEF AddManual
    <3> QED BY <2>2, <3>1, <3>2, <3>3 DEF WordStands
  <2> QED BY <1>1, <2>1, <2>2, <2>3
<1>2. CASE \E s \in Syncs : ApplyList(s) /\ provider # None
  <2>1. PICK s \in Syncs : ApplyList(s)
    BY <1>2
  <2> DEFINE rows == SyncProvider(sync[s].list, sync[s].auto)
  <2>2. sync[s].list \in SUBSET Models /\ sync[s].auto \in BOOLEAN
    BY ListingTyped
  <2>5. provider # None
    BY <1>2
  <2>3. /\ rows \in [Models -> ModelRecord \cup {None}]
        /\ \A m \in Models : rows[m] = None <=> m \notin sync[s].list /\ model[m] = None
        /\ \A m \in Models : rows[m] # None =>
              /\ rows[m].present <=> m \in sync[s].list \cup ManualModels
              /\ rows[m].source = "manual" <=> m \in ManualModels
        /\ \A m \in Models : model[m] # None =>
              /\ rows[m].enabled = model[m].enabled
              /\ rows[m].place = model[m].place
              /\ rows[m].kind = model[m].kind
              /\ rows[m].source = model[m].source
    BY <2>5, <2>2, AfterListing
  <2>4. model' = Purged(s, rows)
    BY <1>2, <2>1 DEF ApplyList
  <2> HIDE DEF rows
  <2> QED BY <2>3, <2>4, KeptOrPurged
<1>3. CASE \E s \in Syncs : ListFails(s) /\ provider # None
  <2>1. PICK s \in Syncs : model' = Purged(s, model)
    BY <1>3 DEF ListFails
  <2>2. model \in [Models -> ModelRecord \cup {None}]
    BY DEF RowsInOrder
  <2> QED BY <2>1, <2>2, KeptOrPurged
<1>4. \/ UNCHANGED model \/ OwnerStep \/ DeleteProvider
      \/ \E s \in Syncs : ApplyList(s) /\ provider # None
      \/ \E s \in Syncs : ListFails(s) /\ provider # None
  <2>1. CASE ChangeProvider \/ RestartHub \/ UNCHANGED vars
    BY <2>1 DEF ChangeProvider, CreateProvider, PatchProvider, RestartHub, vars
  <2>2. CASE Others
    <3>1. \A s \in Syncs : SyncStep(s) =>
             \/ UNCHANGED model
             \/ ApplyList(s) /\ provider # None
             \/ ListFails(s) /\ provider # None
      BY DEF SyncStep, UpstreamAnswers, ProbeEnds, ApplyList, ListFails
    <3>2. \A s \in Syncs : AskSync(s) \/ TimerTurn(s) \/ RemovalStep(s) => UNCHANGED model
      BY DEF AskSync, TimerTurn, RemovalStep, RemovalAnswered, RemovalRefused
    <3>3. \A s \in Syncs, m \in Models : AskRemoval(s, m) => UNCHANGED model
      BY DEF AskRemoval
    <3>4. \A j \in Jobs : Pull(j) \/ DownloadEnds(j) \/ AgentForgets(j) => UNCHANGED model
      BY DEF Pull, DownloadEnds, AgentForgets
    <3>5. \A j \in Jobs : WatchStep(j) \/ PanelHears(j) => UNCHANGED model
      BY DEF WatchStep, WatchTurn, WatchHears, WatchFails, PanelHears
    <3>6. \A m \in Models : MachineChanges(m) => UNCHANGED model
      BY DEF MachineChanges
    <3> QED BY <2>2, <3>1, <3>2, <3>3, <3>4, <3>5, <3>6 DEF Others
  <2> QED BY <2>1, <2>2 DEF Next
<1> QED BY <1>1, <1>2, <1>3, <1>4

(* No listing overwrites or drops what the owner has said ...              *)
THEOREM OwnersWordHolds == Spec => OwnersWordStands
BY CatalogueInvariant, StepKeepsWord, PTL DEF Spec, OwnersWordStands

(* ... nor does it while requests use the provider.                        *)
THEOREM OwnersWordHoldsInUse == UseSpec => OwnersWordStands
BY CatalogueInvariantInUse, StepKeepsWord, UseIsNext, PTL DEF UseSpec, OwnersWordStands

-----------------------------------------------------------------------------
(* What requests derive from the provider's row.  The lemmas of this part  *)
(* are about the requests before a step, f, and after it, g.               *)

RequestRecord ==
    [at : {"idle", "ensuring", "waiting", "calling"}, max : {1, 2},
     fresh : BOOLEAN, limiter : Limiters \cup {None}, used : {0, 1, 2, None}]

CallingIn(f, l) == {r \in Requests : f[r].at = "calling" /\ f[r].limiter = l}
CallingOf(f) == {r \in Requests : f[r].at = "calling"}
UsersOf(f) == {r \in Requests : f[r].at \in {"waiting", "calling"}}

SlotsOf(f) ==
    \A r \in Requests :
        /\ f[r].at = "calling" => Cardinality(CallingIn(f, f[r].limiter)) <= f[r].max
        /\ f[r].at = "waiting" => Cardinality(CallingIn(f, f[r].limiter)) = f[r].max

AgreeOf(f, c) ==
    /\ \A r \in Requests : r \in UsersOf(f) <=> f[r].limiter # None
    /\ \A r, q \in UsersOf(f) : f[r].limiter = f[q].limiter => f[r].max = f[q].max
    /\ \A r \in UsersOf(f) : c # None /\ c.id = f[r].limiter => c.max = f[r].max

LEMMA SlotsAreOf ==
  /\ SlotsRight <=> SlotsOf(request)
  /\ SlotsRight' <=> SlotsOf(request')
BY DEF SlotsRight, SlotsOf, In, Calling, CallingIn

LEMMA AgreeAreOf ==
  /\ LimitersAgree <=> AgreeOf(request, current)
  /\ LimitersAgree' <=> AgreeOf(request', current')
BY DEF LimitersAgree, AgreeOf, InLimiter, UsersOf

LEMMA CallingFinite ==
  ASSUME NEW f, NEW l
  PROVE  /\ IsFiniteSet(CallingIn(f, l)) /\ Cardinality(CallingIn(f, l)) \in Nat
         /\ IsFiniteSet(CallingOf(f)) /\ Cardinality(CallingOf(f)) \in Nat
         /\ Cardinality(CallingOf(f)) <= Cardinality(Requests)
<1>1. CallingIn(f, l) \in SUBSET Requests /\ CallingOf(f) \in SUBSET Requests
  BY DEF CallingIn, CallingOf
<1> QED BY <1>1, UseConstants, FS_Subset, FS_CardinalityType

LEMMA UsersAreRequests ==
  ASSUME NEW f
  PROVE  UsersOf(f) \subseteq Requests
BY DEF UsersOf

(* The same requests call in the same limiters, and those that wait did so *)
(* before: every limiter is as full as it was.                             *)
LEMMA SameSlots ==
  ASSUME NEW f \in [Requests -> RequestRecord], NEW g \in [Requests -> RequestRecord],
         NEW c, AgreeOf(f, c), SlotsOf(f), CallingOf(g) = CallingOf(f),
         \A r \in UsersOf(g) : r \in UsersOf(f) /\ g[r].at = f[r].at /\
                               g[r].limiter = f[r].limiter /\ g[r].max = f[r].max,
         \A r \in Requests : r \in UsersOf(g) <=> g[r].limiter # None,
         NEW d \in {c, None}
  PROVE  SlotsOf(g) /\ AgreeOf(g, d)
<1>1. ASSUME NEW l
      PROVE  CallingIn(g, l) = CallingIn(f, l)
  BY DEF CallingOf, CallingIn, UsersOf
<1>2. SlotsOf(g)
  BY <1>1 DEF SlotsOf, UsersOf
<1> QED BY <1>2 DEF AgreeOf

(* A request takes a slot in a limiter of its size that has one free.      *)
LEMMA SlotTaken ==
  ASSUME NEW f \in [Requests -> RequestRecord], NEW r \in Requests, f[r].at = "ensuring",
         NEW c \in [id : Limiters, max : {1, 2}], c.max = f[r].max,
         AgreeOf(f, c), SlotsOf(f), Cardinality(CallingIn(f, c.id)) < f[r].max,
         NEW g, \A q \in Requests : q # r => g[q] = f[q],
         g[r].at = "calling", g[r].limiter = c.id, g[r].max = f[r].max
  PROVE  /\ SlotsOf(g) /\ AgreeOf(g, c)
         /\ Cardinality(CallingOf(g)) = Cardinality(CallingOf(f)) + 1
<1>1. /\ g[r].at = "calling" /\ g[r].limiter = c.id /\ g[r].max = f[r].max
      /\ \A q \in Requests : q # r => g[q] = f[q]
  OBVIOUS
<1>2. CallingOf(g) = CallingOf(f) \cup {r} /\ r \notin CallingOf(f)
  BY <1>1 DEF CallingOf
<1>3. CallingIn(g, c.id) = CallingIn(f, c.id) \cup {r} /\ r \notin CallingIn(f, c.id)
  BY <1>1 DEF CallingIn
<1>4. ASSUME NEW l, l # c.id
      PROVE  CallingIn(g, l) = CallingIn(f, l)
  BY <1>1, <1>4 DEF CallingIn
<1>5. /\ Cardinality(CallingOf(g)) = Cardinality(CallingOf(f)) + 1
      /\ Cardinality(CallingIn(g, c.id)) = Cardinality(CallingIn(f, c.id)) + 1
  BY <1>2, <1>3, CallingFinite, FS_AddElement
<1>6. UsersOf(g) = UsersOf(f) \cup {r} /\ r \notin UsersOf(f)
  BY <1>1 DEF UsersOf
<1>7. c # None /\ c.id # None /\ f[r].max \in {1, 2}
  BY UseConstants DEF RequestRecord
<1>8. AgreeOf(g, c)
  <2>1. \A q \in UsersOf(f) : q \in Requests /\ q # r /\ g[q] = f[q]
    BY <1>1, <1>6, UsersAreRequests
  <2>2. \A q \in Requests : q \in UsersOf(g) <=> g[q].limiter # None
    BY <1>1, <1>6, <1>7, <2>1 DEF AgreeOf
  <2>3. \A q \in UsersOf(g) : c.id = g[q].limiter => c.max = g[q].max
    BY <1>1, <1>6, <1>7, <2>1 DEF AgreeOf
  <2>4. \A p, q \in UsersOf(g) : g[p].limiter = g[q].limiter => g[p].max = g[q].max
    BY <1>1, <1>6, <2>1, <2>3 DEF AgreeOf
  <2> QED BY <2>2, <2>3, <2>4 DEF AgreeOf
<1>9. ASSUME NEW q \in UsersOf(f), f[q].limiter = c.id
      PROVE  f[q].max = c.max /\ f[q].at = "calling"
  <2>1. f[q].max = c.max
    BY <1>7, <1>9 DEF AgreeOf
  <2> QED BY <1>9, <2>1, CallingFinite DEF SlotsOf, UsersOf
<1>10. ASSUME NEW q \in Requests
       PROVE  /\ g[q].at = "calling" => Cardinality(CallingIn(g, g[q].limiter)) <= g[q].max
              /\ g[q].at = "waiting" => Cardinality(CallingIn(g, g[q].limiter)) = g[q].max
  <2>1. CASE g[q].limiter = c.id /\ g[q].at \in {"calling", "waiting"}
    <3>1. g[q].max = c.max /\ g[q].at = "calling"
      BY <1>1, <1>9, <2>1 DEF UsersOf
    <3> QED BY <1>5, <1>7, <2>1, <3>1, CallingFinite
  <2>2. CASE g[q].limiter # c.id
    <3>1. q # r /\ g[q] = f[q]
      BY <1>1, <2>2
    <3>2. CallingIn(g, g[q].limiter) = CallingIn(f, f[q].limiter)
      BY <1>4, <2>2, <3>1
    <3> QED BY <3>1, <3>2 DEF SlotsOf
  <2> QED BY <2>1, <2>2
<1> QED BY <1>5, <1>8, <1>10 DEF SlotsOf

(* A request waits in a limiter of its size that has none free.            *)
LEMMA LineJoined ==
  ASSUME NEW f \in [Requests -> RequestRecord], NEW r \in Requests, f[r].at = "ensuring",
         NEW c \in [id : Limiters, max : {1, 2}], c.max = f[r].max,
         AgreeOf(f, c), SlotsOf(f), ~(Cardinality(CallingIn(f, c.id)) < f[r].max),
         NEW g, \A q \in Requests : q # r => g[q] = f[q],
         g[r].at = "waiting", g[r].limiter = c.id, g[r].max = f[r].max
  PROVE  SlotsOf(g) /\ AgreeOf(g, c) /\ CallingOf(g) = CallingOf(f)
<1>1. /\ g[r].at = "waiting" /\ g[r].limiter = c.id /\ g[r].max = f[r].max
      /\ \A q \in Requests : q # r => g[q] = f[q]
  OBVIOUS
<1>2. CallingOf(g) = CallingOf(f)
  BY <1>1 DEF CallingOf
<1>3. ASSUME NEW l
      PROVE  CallingIn(g, l) = CallingIn(f, l)
  BY <1>1 DEF CallingIn
<1>4. UsersOf(g) = UsersOf(f) \cup {r} /\ r \notin UsersOf(f)
  BY <1>1 DEF UsersOf
<1>5. c # None /\ c.id # None /\ f[r].max \in {1, 2}
  BY UseConstants DEF RequestRecord
<1>6. AgreeOf(g, c)
  <2>1. \A q \in UsersOf(f) : q \in Requests /\ q # r /\ g[q] = f[q]
    BY <1>1, <1>4, UsersAreRequests
  <2>2. \A q \in Requests : q \in UsersOf(g) <=> g[q].limiter # None
    BY <1>1, <1>4, <1>5, <2>1 DEF AgreeOf
  <2>3. \A q \in UsersOf(g) : c.id = g[q].limiter => c.max = g[q].max
    BY <1>1, <1>4, <1>5, <2>1 DEF AgreeOf
  <2>4. \A p, q \in UsersOf(g) : g[p].limiter = g[q].limiter => g[p].max = g[q].max
    BY <1>1, <1>4, <2>1, <2>3 DEF AgreeOf
  <2> QED BY <2>2, <2>3, <2>4 DEF AgreeOf
<1>7. Cardinality(CallingIn(f, c.id)) = f[r].max
  <2>1. CallingIn(f, c.id) # {}
    BY <1>5, CallingFinite, FS_EmptySet
  <2>2. PICK q \in Requests : f[q].at = "calling" /\ f[q].limiter = c.id
    BY <2>1 DEF CallingIn
  <2>3. f[q].max = c.max
    BY <1>5, <2>2 DEF AgreeOf, UsersOf
  <2> QED BY <1>5, <2>2, <2>3, CallingFinite DEF SlotsOf
<1>8. ASSUME NEW q \in Requests, q # r
      PROVE  CallingIn(g, g[q].limiter) = CallingIn(f, f[q].limiter) /\ g[q] = f[q]
  BY <1>1, <1>3, <1>8
<1>9. SlotsOf(g)
  BY <1>1, <1>3, <1>5, <1>7, <1>8 DEF SlotsOf
<1> QED BY <1>2, <1>6, <1>9

(* A call ends and nobody waits in its limiter.                            *)
LEMMA SlotFreed ==
  ASSUME NEW f \in [Requests -> RequestRecord], NEW r \in Requests, f[r].at = "calling",
         NEW c, AgreeOf(f, c), SlotsOf(f),
         \A w \in Requests : ~(f[w].at = "waiting" /\ f[w].limiter = f[r].limiter),
         NEW g, \A q \in Requests : q # r => g[q] = f[q], g[r] = IdleRequest
  PROVE  /\ SlotsOf(g) /\ AgreeOf(g, c)
         /\ Cardinality(CallingOf(g)) = Cardinality(CallingOf(f)) - 1
<1>1. /\ g[r].at = "idle" /\ g[r].limiter = None
      /\ \A q \in Requests : q # r => g[q] = f[q]
  BY DEF IdleRequest
<1>2. CallingOf(g) = CallingOf(f) \ {r} /\ r \in CallingOf(f)
  BY <1>1 DEF CallingOf
<1>3. Cardinality(CallingOf(g)) = Cardinality(CallingOf(f)) - 1
  BY <1>2, CallingFinite, FS_RemoveElement
<1>4. UsersOf(g) = UsersOf(f) \ {r}
  BY <1>1 DEF UsersOf
<1>5. AgreeOf(g, c)
  BY <1>1, <1>4, UsersAreRequests DEF AgreeOf
<1>6. ASSUME NEW l
      PROVE  /\ Cardinality(CallingIn(g, l)) <= Cardinality(CallingIn(f, l))
             /\ l # f[r].limiter => CallingIn(g, l) = CallingIn(f, l)
  <2>1. CallingIn(g, l) \in SUBSET CallingIn(f, l)
    BY <1>1 DEF CallingIn
  <2>2. l # f[r].limiter => CallingIn(g, l) = CallingIn(f, l)
    BY <1>1 DEF CallingIn
  <2> QED BY <2>1, <2>2, CallingFinite, FS_Subset
<1>7. ASSUME NEW q \in Requests
      PROVE  /\ g[q].at = "calling" => Cardinality(CallingIn(g, g[q].limiter)) <= g[q].max
             /\ g[q].at = "waiting" => Cardinality(CallingIn(g, g[q].limiter)) = g[q].max
  <2>1. CASE q = r
    BY <1>1, <2>1
  <2>2. CASE q # r
    <3>1. g[q] = f[q] /\ f[q].max \in Nat
      BY <1>1, <2>2 DEF RequestRecord
    <3>2. /\ f[q].at = "calling" => Cardinality(CallingIn(f, f[q].limiter)) <= f[q].max
          /\ f[q].at = "waiting" => Cardinality(CallingIn(f, f[q].limiter)) = f[q].max
      BY DEF SlotsOf
    <3>3. f[q].at = "calling" => Cardinality(CallingIn(g, f[q].limiter)) <= f[q].max
      BY <1>6, <3>1, <3>2, CallingFinite
    <3>4. f[q].at = "waiting" => f[q].limiter # f[r].limiter
      OBVIOUS
    <3> QED BY <1>6, <3>1, <3>2, <3>3, <3>4
  <2> QED BY <2>1, <2>2
<1> QED BY <1>3, <1>5, <1>7 DEF SlotsOf

(* A call ends and its slot passes to one that waits in its limiter.       *)
LEMMA SlotPassed ==
  ASSUME NEW f \in [Requests -> RequestRecord], NEW r \in Requests, f[r].at = "calling",
         NEW w \in Requests, f[w].at = "waiting", f[w].limiter = f[r].limiter,
         NEW c, AgreeOf(f, c), SlotsOf(f),
         NEW g, \A q \in Requests : q # r /\ q # w => g[q] = f[q], g[r] = IdleRequest,
         g[w].at = "calling", g[w].limiter = f[w].limiter, g[w].max = f[w].max
  PROVE  /\ SlotsOf(g) /\ AgreeOf(g, c)
         /\ Cardinality(CallingOf(g)) = Cardinality(CallingOf(f))
<1>0. r # w
  OBVIOUS
<1>1. /\ g[r].at = "idle" /\ g[r].limiter = None
      /\ g[w].at = "calling" /\ g[w].limiter = f[w].limiter /\ g[w].max = f[w].max
      /\ \A q \in Requests : q # r /\ q # w => g[q] = f[q]
  BY <1>0 DEF IdleRequest, RequestRecord
<1>2. /\ CallingOf(g) = (CallingOf(f) \ {r}) \cup {w}
      /\ r \in CallingOf(f) /\ w \notin CallingOf(f)
  BY <1>0, <1>1 DEF CallingOf
<1>3. Cardinality(CallingOf(g)) = Cardinality(CallingOf(f))
  <2>1. /\ IsFiniteSet(CallingOf(f) \ {r})
        /\ Cardinality(CallingOf(f) \ {r}) = Cardinality(CallingOf(f)) - 1
    BY <1>2, CallingFinite, FS_RemoveElement
  <2>2. Cardinality(CallingOf(g)) = Cardinality(CallingOf(f) \ {r}) + 1
    BY <1>2, <2>1, FS_AddElement
  <2> QED BY <2>1, <2>2, CallingFinite
<1>4. UsersOf(g) = UsersOf(f) \ {r} /\ w \in UsersOf(f)
  BY <1>0, <1>1 DEF UsersOf
<1>5. \A q \in UsersOf(g) : g[q].limiter = f[q].limiter /\ g[q].max = f[q].max
  BY <1>1, <1>4, UsersAreRequests
<1>6. AgreeOf(g, c)
  BY <1>1, <1>4, <1>5, UsersAreRequests DEF AgreeOf
<1>7. ASSUME NEW l
      PROVE  Cardinality(CallingIn(g, l)) = Cardinality(CallingIn(f, l))
  <2>1. CASE l # f[r].limiter
    <3>1. CallingIn(g, l) = CallingIn(f, l)
      BY <1>0, <1>1, <2>1 DEF CallingIn
    <3> QED BY <3>1
  <2>2. CASE l = f[r].limiter
    <3>1. /\ CallingIn(g, l) = (CallingIn(f, l) \ {r}) \cup {w}
          /\ r \in CallingIn(f, l) /\ w \notin CallingIn(f, l)
      BY <1>0, <1>1, <2>2 DEF CallingIn
    <3>2. /\ IsFiniteSet(CallingIn(f, l) \ {r})
          /\ Cardinality(CallingIn(f, l) \ {r}) = Cardinality(CallingIn(f, l)) - 1
      BY <3>1, CallingFinite, FS_RemoveElement
    <3>3. Cardinality(CallingIn(g, l)) = Cardinality(CallingIn(f, l) \ {r}) + 1
      BY <3>1, <3>2, FS_AddElement
    <3> QED BY <3>2, <3>3, CallingFinite
  <2> QED BY <2>1, <2>2
<1>8. ASSUME NEW q \in Requests
      PROVE  /\ g[q].at = "calling" => Cardinality(CallingIn(g, g[q].limiter)) <= g[q].max
             /\ g[q].at = "waiting" => Cardinality(CallingIn(g, g[q].limiter)) = g[q].max
  <2>1. CASE q = r
    BY <1>1, <2>1
  <2>2. CASE q = w
    <3>1. Cardinality(CallingIn(f, f[w].limiter)) = f[w].max /\ f[w].max \in Nat
      BY DEF SlotsOf, RequestRecord
    <3>2. Cardinality(CallingIn(g, g[w].limiter)) = g[w].max
      BY <1>1, <1>7, <3>1
    <3> QED BY <1>1, <2>2, <3>1, <3>2
  <2>3. CASE q # r /\ q # w
    <3>1. g[q] = f[q] /\ Cardinality(CallingIn(g, g[q].limiter)) = Cardinality(CallingIn(f, f[q].limiter))
      BY <1>1, <1>7, <2>3
    <3> QED BY <3>1 DEF SlotsOf
  <2> QED BY <2>1, <2>2, <2>3
<1> QED BY <1>3, <1>6, <1>8 DEF SlotsOf

LEMMA RequestsTyped ==
  /\ UseTypeOK => request \in [Requests -> RequestRecord]
  /\ UseTypeOK => current \in [id : Limiters, max : {1, 2}] \cup {None}
BY DEF UseTypeOK, RequestRecord

LEMMA IdleTyped == IdleRequest \in RequestRecord
BY DEF IdleRequest, RequestRecord

LEMMA SecretTyped ==
  ASSUME RowsInOrder
  PROVE  /\ Secret \in {0, 1, 2, None}
         /\ UseTypeOK /\ (SecretNowCached \/ UNCHANGED cached) => cached' \in {None, 1, 2}
<1>1. provider # None => provider.secret \in {1, 2}
  BY DEF RowsInOrder, ProviderRecord
<1>2. Secret \in {0, 1, 2, None}
  BY <1>1 DEF Secret
<1> QED BY <1>1, <1>2 DEF SecretNowCached, UseTypeOK

(* There are more limiters than requests, so one is free.                  *)
LEMMA FreeLimiter ==
  ASSUME NEW r \in Requests, request[r].at = "ensuring"
  PROVE  Unused # {}
<1> SUFFICES ASSUME \A l \in Limiters : \/ In(l) # {} \/ WaitingIn(l) # {}
                                        \/ current # None /\ l = current.id
             PROVE  FALSE
  BY DEF Unused
<1> DEFINE user(l) == CHOOSE q \in InLimiter : request[q].limiter = l
           g == [l \in Limiters |->
                    IF current # None /\ l = current.id THEN r ELSE user(l)]
<1>1. ASSUME NEW l \in Limiters, ~(current # None /\ l = current.id)
      PROVE  user(l) \in InLimiter /\ request[user(l)].limiter = l
  <2>1. \E q \in InLimiter : request[q].limiter = l
    BY <1>1 DEF In, Calling, WaitingIn, InLimiter
  <2> QED BY <2>1
<1>2. InLimiter \subseteq Requests /\ r \notin InLimiter
  BY DEF InLimiter
<1> HIDE DEF user
<1>3. g \in [Limiters -> Requests]
  BY <1>1, <1>2
<1> HIDE DEF g
<1>4. PICK k, l \in Limiters : k # l /\ g[k] = g[l]
  BY <1>3, UseConstants, FS_PigeonHole
<1> QED BY <1>1, <1>2, <1>4 DEF g

(* The limiter a request takes is of its size, and those in it agree.      *)
LEMMA LimiterTaken ==
  ASSUME UseInv, NEW r \in Requests, request[r].at = "ensuring",
         NEW c, c = LimiterFor(request[r].max)
  PROVE  /\ c \in [id : Limiters, max : {1, 2}]
         /\ c.max = request[r].max
         /\ AgreeOf(request, c)
         /\ current # None /\ current.max = request[r].max => c = current
<1>1. AgreeOf(request, current) /\ request[r].max \in {1, 2}
  BY AgreeAreOf, RequestsTyped DEF UseInv, RequestRecord
<1>2. CASE current # None /\ current.max = request[r].max
  <2>1. c = current
    BY <1>2 DEF LimiterFor
  <2> QED BY <1>1, <1>2, <2>1, RequestsTyped DEF UseInv
<1>3. CASE ~(current # None /\ current.max = request[r].max)
  <2>0. PICK l \in Limiters : /\ In(l) = {} /\ WaitingIn(l) = {}
                              /\ c = [id |-> l, max |-> request[r].max]
    BY <1>3, FreeLimiter DEF LimiterFor, Unused
  <2>2. \A q \in UsersOf(request) : request[q].limiter # l
    BY <2>0 DEF UsersOf, In, Calling, WaitingIn
  <2>3. AgreeOf(request, c)
    BY <1>1, <2>0, <2>2 DEF AgreeOf
  <2> QED BY <1>1, <1>3, <2>0, <2>3
<1> QED BY <1>2, <1>3

LEMMA CallingAreOf ==
  /\ Calling = CallingOf(request) /\ Calling' = CallingOf(request')
  /\ InLimiter = UsersOf(request) /\ InLimiter' = UsersOf(request')
BY DEF Calling, CallingOf, InLimiter, UsersOf

LEMMA InIsOf ==
  ASSUME NEW l
  PROVE  In(l) = CallingIn(request, l)
BY DEF In, Calling, CallingIn

LEMMA TakeSlotInv ==
  ASSUME RowsInOrder, UseInv, NEW r \in Requests, TakeSlot(r), UNCHANGED vars
  PROVE  UseInv'
<1> DEFINE c == LimiterFor(request[r].max)
<1>1. /\ request[r].at = "ensuring" /\ current' = c
      /\ request \in [Requests -> RequestRecord] /\ UseTypeOK
      /\ UNCHANGED <<provider, master, sealedBy, kept>>
      /\ settled' = (settled /\ request[r].fresh)
  BY RequestsTyped DEF TakeSlot, UseInv, vars
<1>2. /\ c \in [id : Limiters, max : {1, 2}] /\ c.max = request[r].max
      /\ AgreeOf(request, c)
      /\ current # None /\ current.max = request[r].max => c = current
  BY <1>1, LimiterTaken
<1>3. SlotsOf(request)
  BY SlotsAreOf DEF UseInv
<1>4. request[r].fresh => provider # None /\ request[r].max = provider.max
  BY DEF UseInv, RowsFresh
<1>5. request[r].fresh /\ settled =>
         \A q \in InLimiter : request[q].fresh => current = c /\ request[q].limiter = c.id
  <2>1. ASSUME request[r].fresh, settled, NEW q \in InLimiter, request[q].fresh
        PROVE  current = c /\ request[q].limiter = c.id
    <3>1. q \in Requests
      BY DEF InLimiter
    <3>2. request[q].max = provider.max /\ current # None /\ request[q].limiter = current.id
      BY <2>1, <3>1 DEF UseInv, RowsFresh
    <3>3. current.max = request[q].max
      BY <2>1, <3>2 DEF UseInv, LimitersAgree
    <3> QED BY <1>2, <1>4, <2>1, <3>2, <3>3
  <2> QED BY <2>1
<1>6. \A k : In(k) = CallingIn(request, k)
  BY InIsOf
<1>7. CASE Cardinality(In(c.id)) < request[r].max
  <2> DEFINE g == [request EXCEPT ![r].at = "calling", ![r].limiter = c.id, ![r].used = Secret]
  <2>1. request' = g /\ SecretNowCached /\ inflight' = inflight + 1
    BY <1>7 DEF TakeSlot
  <2> HIDE DEF c
  <2>2. /\ g \in [Requests -> RequestRecord]
        /\ g[r].at = "calling" /\ g[r].limiter = c.id /\ g[r].max = request[r].max
        /\ g[r].used = Secret /\ g[r].fresh = request[r].fresh
        /\ \A q \in Requests : q # r => g[q] = request[q]
    BY <1>1, <1>2, SecretTyped DEF RequestRecord
  <2> HIDE DEF g
  <2>3. /\ SlotsOf(g) /\ AgreeOf(g, c)
        /\ Cardinality(CallingOf(g)) = Cardinality(CallingOf(request)) + 1
    BY <1>1, <1>2, <1>3, <1>6, <1>7, <2>2, SlotTaken
  <2>4. SlotsRight' /\ LimitersAgree'
    BY <1>1, <2>1, <2>3, SlotsAreOf, AgreeAreOf
  <2>5. CountRight' /\ inflight' \in 0 .. Cardinality(Requests)
    <3>1. Cardinality(CallingOf(g)) <= Cardinality(Requests) /\ Cardinality(Requests) \in Nat
      BY CallingFinite, UseConstants, FS_CardinalityType
    <3>2. /\ inflight \in Nat /\ inflight <= Cardinality(Calling)
          /\ (kept => inflight = Cardinality(Calling))
      BY FS_CardinalityType, UseConstants DEF UseInv, UseTypeOK, CountRight
    <3> QED BY <1>1, <2>1, <2>3, <3>1, <3>2, CallingAreOf, CallingFinite DEF CountRight
  <2>6. UseTypeOK'
    <3>1. cached' \in {None, 1, 2}
      BY <1>1, <2>1, SecretTyped
    <3> QED BY <1>1, <1>2, <2>1, <2>2, <2>5, <3>1 DEF UseTypeOK, RequestRecord
  <2>7. KeyRight'
    <3>1. ASSUME NEW q \in Requests, g[q].at = "calling", g[q].fresh
          PROVE  g[q].used = provider.secret \/ (g[q].used = None /\ sealedBy # master)
      <4>1. CASE q = r
        BY <1>4, <2>2, <3>1, <4>1 DEF Secret
      <4>2. CASE q # r
        BY <2>2, <3>1, <4>2 DEF UseInv, KeyRight, Calling
      <4> QED BY <4>1, <4>2
    <3> QED BY <1>1, <2>1, <3>1 DEF KeyRight, Calling
  <2>8. RowsFresh'
    <3>1. ASSUME NEW q \in Requests, g[q].fresh
          PROVE  /\ provider # None /\ g[q].max = provider.max
                 /\ settled /\ request[r].fresh /\ q \in UsersOf(g) => g[q].limiter = c.id
      <4>1. CASE q = r
        BY <1>4, <2>2, <3>1, <4>1
      <4>2. CASE q # r
        BY <1>5, <2>2, <3>1, <4>2 DEF UseInv, RowsFresh, UsersOf, InLimiter
      <4> QED BY <4>1, <4>2
    <3>2. c # None
      BY <1>2, UseConstants
    <3> QED BY <1>1, <2>1, <3>1, <3>2, CallingAreOf DEF RowsFresh
  <2> QED BY <2>4, <2>5, <2>6, <2>7, <2>8 DEF UseInv
<1>8. CASE ~(Cardinality(In(c.id)) < request[r].max)
  <2> DEFINE g == [request EXCEPT ![r].at = "waiting", ![r].limiter = c.id]
  <2>1. request' = g /\ UNCHANGED <<cached, inflight>>
    BY <1>8 DEF TakeSlot
  <2> HIDE DEF c
  <2>2. /\ g \in [Requests -> RequestRecord]
        /\ g[r].at = "waiting" /\ g[r].limiter = c.id /\ g[r].max = request[r].max
        /\ g[r].fresh = request[r].fresh
        /\ \A q \in Requests : q # r => g[q] = request[q]
    BY <1>1, <1>2 DEF RequestRecord
  <2> HIDE DEF g
  <2>3. SlotsOf(g) /\ AgreeOf(g, c) /\ CallingOf(g) = CallingOf(request)
    BY <1>1, <1>2, <1>3, <1>6, <1>8, <2>2, LineJoined
  <2>4. SlotsRight' /\ LimitersAgree'
    BY <1>1, <2>1, <2>3, SlotsAreOf, AgreeAreOf
  <2>5. CountRight'
    BY <1>1, <2>1, <2>3, CallingAreOf DEF UseInv, CountRight
  <2>6. UseTypeOK'
    BY <1>1, <1>2, <2>1, <2>2 DEF UseTypeOK, RequestRecord
  <2>7. KeyRight'
    <3>1. \A q \in CallingOf(g) : q \in Requests /\ q \in Calling /\ g[q] = request[q]
      BY <2>2, <2>3, CallingAreOf DEF CallingOf
    <3> QED BY <1>1, <2>1, <3>1, CallingAreOf DEF UseInv, KeyRight
  <2>8. RowsFresh'
    <3>1. ASSUME NEW q \in Requests, g[q].fresh
          PROVE  /\ provider # None /\ g[q].max = provider.max
                 /\ settled /\ request[r].fresh /\ q \in UsersOf(g) => g[q].limiter = c.id
      <4>1. CASE q = r
        BY <1>4, <2>2, <3>1, <4>1
      <4>2. CASE q # r
        BY <1>5, <2>2, <3>1, <4>2 DEF UseInv, RowsFresh, UsersOf, InLimiter
      <4> QED BY <4>1, <4>2
    <3>2. c # None
      BY <1>2, UseConstants
    <3> QED BY <1>1, <2>1, <3>1, <3>2, CallingAreOf DEF RowsFresh
  <2> QED BY <2>4, <2>5, <2>6, <2>7, <2>8 DEF UseInv
<1> QED BY <1>7, <1>8

(* The requests that are in a limiter stay as they are.                    *)
LEMMA SlotsKept ==
  ASSUME UseInv, request' \in [Requests -> RequestRecord], Calling' = Calling,
         \A q \in InLimiter' : /\ q \in InLimiter /\ request'[q].at = request[q].at
                               /\ request'[q].limiter = request[q].limiter
                               /\ request'[q].max = request[q].max,
         \A q \in Requests : q \in InLimiter' <=> request'[q].limiter # None,
         current' \in {current, None}
  PROVE  SlotsRight' /\ LimitersAgree'
<1>1. SlotsOf(request) /\ AgreeOf(request, current) /\ request \in [Requests -> RequestRecord]
  BY SlotsAreOf, AgreeAreOf, RequestsTyped DEF UseInv
<1>2. SlotsOf(request') /\ AgreeOf(request', current')
  BY <1>1, CallingAreOf, SameSlots
<1> QED BY <1>2, SlotsAreOf, AgreeAreOf

(* A request comes, or leaves without having called.                       *)
LEMMA ComeAndGoInv ==
  ASSUME RowsInOrder, UseInv, NEW r \in Requests, UNCHANGED vars,
         Route(r) \/ EnsureFails(r) \/ LeaveLine(r)
  PROVE  UseInv'
<1>1. /\ request[r].at \in {"idle", "ensuring", "waiting"}
      /\ UNCHANGED <<provider, current, cached, master, sealedBy, inflight, settled, kept>>
      /\ request \in [Requests -> RequestRecord] /\ UseTypeOK
  BY RequestsTyped DEF Route, EnsureFails, LeaveLine, UseInv, vars
<1>2. PICK v \in RequestRecord :
         /\ request' = [request EXCEPT ![r] = v]
         /\ v.at \in {"idle", "ensuring"} /\ v.limiter = None
         /\ v.fresh => provider # None /\ v.max = provider.max
  <2>1. CASE Route(r)
    <3> DEFINE v == [IdleRequest EXCEPT !.at = "ensuring", !.max = provider.max, !.fresh = TRUE]
    <3>1. provider # None /\ provider.max \in {1, 2} /\ request' = [request EXCEPT ![r] = v]
      BY <2>1 DEF Route, RowsInOrder, ProviderRecord
    <3>2. /\ v \in RequestRecord /\ v.at = "ensuring" /\ v.limiter = None
          /\ v.max = provider.max
      BY <3>1 DEF IdleRequest, RequestRecord
    <3> QED BY <3>1, <3>2
  <2>2. CASE EnsureFails(r) \/ LeaveLine(r)
    <3>1. request' = [request EXCEPT ![r] = IdleRequest]
      BY <2>2 DEF EnsureFails, LeaveLine
    <3>2. /\ IdleRequest.at = "idle" /\ IdleRequest.limiter = None
          /\ IdleRequest.fresh = FALSE
      BY DEF IdleRequest
    <3> QED BY <3>1, <3>2, IdleTyped
  <2> QED BY <2>1, <2>2
<1>3. /\ request' \in [Requests -> RequestRecord] /\ request'[r] = v
      /\ \A q \in Requests : q # r => request'[q] = request[q]
  BY <1>1, <1>2
<1>4. Calling' = Calling
  BY <1>1, <1>2, <1>3 DEF Calling
<1>5. InLimiter' = InLimiter \ {r} /\ InLimiter \subseteq Requests
  BY <1>1, <1>2, <1>3 DEF InLimiter
<1>6. SlotsRight' /\ LimitersAgree'
  <2>1. \A q \in Requests : q \in InLimiter' <=> request'[q].limiter # None
    BY <1>2, <1>3, <1>5 DEF UseInv, LimitersAgree
  <2> QED BY <1>1, <1>3, <1>4, <1>5, <2>1, SlotsKept
<1>7. CountRight'
  BY <1>1, <1>4 DEF UseInv, CountRight
<1>8. KeyRight'
  <2>1. \A q \in Calling : q \in Requests /\ request'[q] = request[q]
    BY <1>1, <1>3 DEF Calling
  <2> QED BY <1>1, <1>4, <2>1 DEF UseInv, KeyRight
<1>9. RowsFresh'
  <2>1. ASSUME NEW q \in Requests, request'[q].fresh
        PROVE  /\ provider # None /\ request'[q].max = provider.max
               /\ settled /\ q \in InLimiter' => /\ current # None
                                                 /\ request'[q].limiter = current.id
    BY <1>2, <1>3, <1>5, <2>1 DEF UseInv, RowsFresh
  <2> QED BY <1>1, <2>1 DEF RowsFresh
<1>10. UseTypeOK'
  BY <1>1, <1>3 DEF UseTypeOK, RequestRecord
<1> QED BY <1>6, <1>7, <1>8, <1>9, <1>10 DEF UseInv

LEMMA FinishInv ==
  ASSUME RowsInOrder, UseInv, NEW r \in Requests, UNCHANGED vars, Finish(r)
  PROVE  UseInv'
<1>1. /\ request[r].at = "calling" /\ UNCHANGED <<provider, current, master, sealedBy, settled>>
      /\ kept' = (kept \/ Calling = {r})
      /\ request \in [Requests -> RequestRecord] /\ UseTypeOK
      /\ SlotsOf(request) /\ AgreeOf(request, current)
  BY RequestsTyped, SlotsAreOf, AgreeAreOf DEF Finish, UseInv, vars
<1>2. /\ inflight \in 0 .. Cardinality(Requests) /\ inflight <= Cardinality(Calling)
      /\ kept => inflight = Cardinality(Calling)
      /\ Cardinality(Requests) \in Nat
      /\ Cardinality(Calling) \in Nat \ {0} /\ Cardinality(Calling) <= Cardinality(Requests)
      /\ Calling = {r} => Cardinality(Calling) = 1
  <2>1. r \in Calling /\ IsFiniteSet(Calling) /\ Cardinality(Calling) \in Nat
    BY <1>1, CallingAreOf, CallingFinite DEF Calling
  <2>2. Cardinality(Calling) # 0
    BY <2>1, FS_EmptySet
  <2> QED BY <2>1, <2>2, CallingAreOf, CallingFinite, UseConstants, FS_CardinalityType,
             FS_Singleton DEF UseInv, UseTypeOK, CountRight
<1>3. CASE WaitingIn(request[r].limiter) = {}
  <2>1. request' = [request EXCEPT ![r] = IdleRequest] /\ inflight' = Ended(inflight)
        /\ UNCHANGED cached
    BY <1>3 DEF Finish
  <2>2. /\ request' \in [Requests -> RequestRecord] /\ request'[r] = IdleRequest
        /\ \A q \in Requests : q # r => request'[q] = request[q]
    BY <1>1, <2>1, IdleTyped
  <2>3. /\ IdleRequest.at = "idle" /\ IdleRequest.limiter = None /\ IdleRequest.fresh = FALSE
    BY DEF IdleRequest
  <2>4. /\ SlotsOf(request') /\ AgreeOf(request', current)
        /\ Cardinality(Calling') = Cardinality(Calling) - 1
    <3>1. \A w \in Requests :
             ~(request[w].at = "waiting" /\ request[w].limiter = request[r].limiter)
      BY <1>3 DEF WaitingIn
    <3> QED BY <1>1, <2>2, <3>1, SlotFreed, CallingAreOf
  <2>5. CountRight' /\ inflight' \in 0 .. Cardinality(Requests)
    <3>1. /\ inflight' \in Nat /\ inflight' <= Cardinality(Calling) - 1
          /\ kept \/ Calling = {r} => inflight' = Cardinality(Calling) - 1
      BY <1>2, <2>1 DEF Ended
    <3>2. kept' => kept \/ Calling = {r}
      BY <1>1, Zenon
    <3> QED BY <1>2, <2>4, <3>1, <3>2 DEF CountRight
  <2>6. KeyRight' /\ RowsFresh'
    <3>1. \A q \in Requests : request'[q].fresh => request'[q] = request[q]
      BY <2>2, <2>3
    <3>2. KeyRight'
      BY <1>1, <3>1 DEF UseInv, KeyRight, Calling
    <3>3. RowsFresh'
      BY <1>1, <3>1 DEF UseInv, RowsFresh, InLimiter
    <3> QED BY <3>2, <3>3
  <2>7. UseTypeOK'
    BY <1>1, <2>1, <2>2, <2>5 DEF UseTypeOK, RequestRecord
  <2>8. SlotsRight' /\ LimitersAgree'
    BY <1>1, <2>4, SlotsAreOf, AgreeAreOf
  <2> QED BY <2>5, <2>6, <2>7, <2>8 DEF UseInv
<1>4. CASE WaitingIn(request[r].limiter) # {}
  <2>1. PICK w \in WaitingIn(request[r].limiter) :
           /\ request' = [[request EXCEPT ![r] = IdleRequest]
                             EXCEPT ![w].at = "calling", ![w].used = Secret]
           /\ inflight' = Ended(inflight) + 1 /\ SecretNowCached
    BY <1>4 DEF Finish
  <2>2. /\ w \in Requests /\ request[w].at = "waiting" /\ w # r
        /\ request[w].limiter = request[r].limiter
    BY <1>1 DEF WaitingIn
  <2>3. /\ request' \in [Requests -> RequestRecord] /\ request'[r] = IdleRequest
        /\ request'[w].at = "calling" /\ request'[w].limiter = request[w].limiter
        /\ request'[w].max = request[w].max /\ request'[w].fresh = request[w].fresh
        /\ request'[w].used = Secret
        /\ \A q \in Requests : q # r /\ q # w => request'[q] = request[q]
    BY <1>1, <2>1, <2>2, IdleTyped, SecretTyped DEF RequestRecord
  <2>4. /\ IdleRequest.at = "idle" /\ IdleRequest.limiter = None /\ IdleRequest.fresh = FALSE
    BY DEF IdleRequest
  <2>5. /\ SlotsOf(request') /\ AgreeOf(request', current)
        /\ Cardinality(Calling') = Cardinality(Calling)
    BY <1>1, <2>2, <2>3, SlotPassed, CallingAreOf
  <2>6. CountRight' /\ inflight' \in 0 .. Cardinality(Requests)
    <3>1. /\ inflight' \in Nat /\ inflight' <= Cardinality(Calling)
          /\ kept \/ Calling = {r} => inflight' = Cardinality(Calling)
      BY <1>2, <2>1 DEF Ended
    <3>2. kept' => kept \/ Calling = {r}
      BY <1>1, Zenon
    <3> QED BY <1>2, <2>5, <3>1, <3>2 DEF CountRight
  <2>7. KeyRight'
    <3>1. ASSUME NEW q \in Requests, request'[q].at = "calling", request'[q].fresh
          PROVE  request'[q].used = provider.secret \/ (request'[q].used = None /\ sealedBy # master)
      <4>1. CASE q = r
        BY <2>3, <2>4, <3>1, <4>1
      <4>2. CASE q = w
        <5>1. provider # None
          BY <2>2, <2>3, <3>1, <4>2 DEF UseInv, RowsFresh
        <5> QED BY <2>3, <4>2, <5>1 DEF Secret
      <4>3. CASE q # r /\ q # w
        BY <2>3, <3>1, <4>3 DEF UseInv, KeyRight, Calling
      <4> QED BY <4>1, <4>2, <4>3
    <3> QED BY <1>1, <3>1 DEF KeyRight, Calling
  <2>8. RowsFresh'
    <3>1. \A q \in Requests : request'[q].fresh =>
             /\ request[q].fresh /\ request'[q].limiter = request[q].limiter
             /\ request'[q].max = request[q].max
             /\ q \in InLimiter' => q \in InLimiter
      BY <2>2, <2>3, <2>4 DEF InLimiter
    <3> QED BY <1>1, <3>1 DEF UseInv, RowsFresh
  <2>9. UseTypeOK'
    <3>1. cached' \in {None, 1, 2}
      BY <1>1, <2>1, SecretTyped
    <3> QED BY <1>1, <2>3, <2>6, <3>1 DEF UseTypeOK, RequestRecord
  <2>10. SlotsRight' /\ LimitersAgree'
    BY <1>1, <2>5, SlotsAreOf, AgreeAreOf
  <2> QED BY <2>6, <2>7, <2>8, <2>9, <2>10 DEF UseInv
<1> QED BY <1>3, <1>4

(* The provider's row was changed.                                         *)
LEMMA EmitInv ==
  ASSUME UseInv, Emit
  PROVE  UseInv'
<1>1. /\ current' = None /\ cached' = None /\ settled' = TRUE /\ UNCHANGED master
      /\ request' = [q \in Requests |-> [request[q] EXCEPT !.fresh = FALSE]]
      /\ request \in [Requests -> RequestRecord] /\ UseTypeOK
      /\ sealedBy' \in {master, sealedBy}
      /\ \/ inflight' = 0 /\ kept' = (kept /\ Calling = {})
         \/ UNCHANGED <<inflight, kept>>
  BY RequestsTyped DEF Emit, UseInv
<1>2. \A q \in Requests : /\ request'[q] \in RequestRecord /\ ~request'[q].fresh
                          /\ request'[q].at = request[q].at
                          /\ request'[q].limiter = request[q].limiter
                          /\ request'[q].max = request[q].max
  BY <1>1 DEF RequestRecord
<1>3. Calling' = Calling /\ InLimiter' = InLimiter /\ InLimiter \subseteq Requests
  BY <1>2 DEF Calling, InLimiter
<1>4. request' \in [Requests -> RequestRecord]
  BY <1>1, <1>2
<1>5. SlotsRight' /\ LimitersAgree'
  <2>1. \A q \in Requests : q \in InLimiter' <=> request'[q].limiter # None
    BY <1>2, <1>3 DEF UseInv, LimitersAgree
  <2> QED BY <1>1, <1>2, <1>3, <1>4, <2>1, SlotsKept
<1>6. CountRight' /\ inflight' \in 0 .. Cardinality(Requests) /\ kept' \in BOOLEAN
  <2>1. CASE UNCHANGED <<inflight, kept>>
    BY <1>1, <1>3, <2>1 DEF UseInv, CountRight, UseTypeOK
  <2>2. CASE inflight' = 0 /\ kept' = (kept /\ Calling = {})
    <3>1. Calling = {} => Cardinality(Calling) = 0
      BY FS_EmptySet
    <3>2. Cardinality(Calling) \in Nat /\ Cardinality(Requests) \in Nat
      BY CallingAreOf, CallingFinite, UseConstants, FS_CardinalityType
    <3>3. (kept' => Calling = {}) /\ kept' \in BOOLEAN
      BY <2>2, Zenon
    <3> QED BY <1>3, <2>2, <3>1, <3>2, <3>3 DEF CountRight
  <2> QED BY <1>1, <2>1, <2>2
<1>7. KeyRight' /\ RowsFresh'
  BY <1>2 DEF KeyRight, RowsFresh, Calling
<1>8. UseTypeOK'
  BY <1>1, <1>4, <1>6 DEF UseTypeOK, RequestRecord
<1> QED BY <1>5, <1>6, <1>7, <1>8 DEF UseInv

(* A hub that starts has nothing under way.                                *)
NothingUnderWay ==
    /\ request = [r \in Requests |-> IdleRequest]
    /\ current = None /\ cached = None /\ inflight = 0 /\ settled = TRUE /\ kept = TRUE
    /\ master \in {1, 2} /\ sealedBy \in {1, 2}

LEMMA FreshStart == NothingUnderWay => UseInv
<1> SUFFICES ASSUME NothingUnderWay
             PROVE  UseInv
  OBVIOUS
<1> USE DEF NothingUnderWay
<1>1. \A q \in Requests : /\ request[q].at = "idle" /\ request[q].limiter = None
                          /\ request[q].fresh = FALSE
  BY DEF IdleRequest
<1>2. Calling = {} /\ InLimiter = {}
  BY <1>1 DEF Calling, InLimiter
<1>3. Cardinality(Calling) = 0 /\ Cardinality(Requests) \in Nat
  BY <1>2, UseConstants, FS_EmptySet, FS_CardinalityType
<1>4. CountRight /\ KeyRight /\ RowsFresh /\ LimitersAgree
  BY <1>1, <1>2, <1>3 DEF CountRight, KeyRight, RowsFresh, LimitersAgree
<1>5. SlotsRight
  BY <1>1 DEF SlotsRight
<1>6. UseTypeOK
  BY <1>3, IdleTyped DEF UseTypeOK, RequestRecord
<1> QED BY <1>4, <1>5, <1>6 DEF UseInv

(* What the others do to the provider's row is not what a request keeps.   *)
LEMMA ProviderStays ==
  ASSUME RowsInOrder, Others
  PROVE  \/ provider' = provider
         \/ /\ provider # None /\ provider' # None
            /\ provider'.max = provider.max /\ provider'.secret = provider.secret
<1>1. CASE \E s \in Syncs : (ApplyList(s) \/ ListFails(s)) /\ provider # None
  <2>1. provider \in ProviderRecord
    BY <1>1 DEF RowsInOrder
  <2>2. \/ provider' = [provider EXCEPT !.synced = TRUE, !.error = FALSE]
        \/ provider' = [provider EXCEPT !.error = TRUE]
    BY <1>1 DEF ApplyList, ListFails
  <2>3. provider' \in ProviderRecord
    BY <2>1, <2>2, ProviderTouched
  <2>4. provider'.max = provider.max /\ provider'.secret = provider.secret
    BY <2>1, <2>2 DEF ProviderRecord
  <2> QED BY <1>1, <2>3, <2>4, NoneIsNoRow
<1>2. CASE ~ \E s \in Syncs : (ApplyList(s) \/ ListFails(s)) /\ provider # None
  <2>1. OwnerStep => UNCHANGED provider
    BY DEF OwnerStep, AddManual, PatchModel, DeleteModel
  <2>2. \A s \in Syncs : AskSync(s) \/ TimerTurn(s) \/ SyncStep(s) \/ RemovalStep(s)
                            => UNCHANGED provider
    BY <1>2 DEF AskSync, TimerTurn, SyncStep, UpstreamAnswers, ProbeEnds, ApplyList, ListFails,
                RemovalStep, RemovalAnswered, RemovalRefused
  <2>3. \A s \in Syncs, m \in Models : AskRemoval(s, m) => UNCHANGED provider
    BY DEF AskRemoval
  <2>4. \A j \in Jobs : Pull(j) \/ DownloadEnds(j) \/ AgentForgets(j) \/ WatchStep(j)
                           \/ PanelHears(j) => UNCHANGED provider
    BY DEF Pull, DownloadEnds, AgentForgets, WatchStep, WatchTurn, WatchHears, WatchFails, PanelHears
  <2>5. \A m \in Models : MachineChanges(m) => UNCHANGED provider
    BY DEF MachineChanges
  <2> QED BY <2>1, <2>2, <2>3, <2>4, <2>5 DEF Others
<1> QED BY <1>1, <1>2

LEMMA UseStays ==
  ASSUME UseInv, UNCHANGED useVars,
         \/ provider' = provider
         \/ /\ provider # None /\ provider' # None
            /\ provider'.max = provider.max /\ provider'.secret = provider.secret
  PROVE  UseInv'
<1>1. UNCHANGED <<request, current, cached, master, sealedBy, inflight, settled, kept>>
  BY DEF useVars
<1>2. Calling' = Calling /\ InLimiter' = InLimiter /\ Calling \subseteq Requests
  BY <1>1 DEF Calling, InLimiter
<1>3. UseTypeOK' /\ CountRight'
  BY <1>1, <1>2 DEF UseInv, UseTypeOK, CountRight
<1>4. SlotsRight' /\ LimitersAgree'
  BY <1>1, SlotsAreOf, AgreeAreOf DEF UseInv
<1>5. RowsFresh'
  BY <1>1, <1>2 DEF UseInv, RowsFresh
<1>6. KeyRight'
  BY <1>1, <1>2 DEF UseInv, KeyRight, RowsFresh
<1> QED BY <1>3, <1>4, <1>5, <1>6 DEF UseInv

LEMMA UseStepInv == CatalogueInv /\ UseInv /\ [UseNext]_allVars => UseInv'
<1> SUFFICES ASSUME RowsInOrder, UseInv, [UseNext]_allVars
             PROVE  UseInv'
  BY InTwoParts
<1>1. CASE ChangeProvider /\ Emit
  BY <1>1, EmitInv
<1>2. CASE RestartHub /\ ForgetUse
  <2>1. NothingUnderWay'
    BY <1>2 DEF NothingUnderWay, ForgetUse, UseInv, UseTypeOK
  <2> QED BY <2>1, FreshStart, PTL
<1>3. CASE Others /\ UNCHANGED useVars
  BY <1>3, ProviderStays, UseStays
<1>4. CASE \E r \in Requests : UseStep(r) /\ UNCHANGED vars
  BY <1>4, ComeAndGoInv, TakeSlotInv, FinishInv DEF UseStep
<1>5. CASE UNCHANGED allVars
  <2>1. UNCHANGED useVars /\ UNCHANGED provider
    BY <1>5 DEF allVars, vars
  <2> QED BY <2>1, UseStays
<1> QED BY <1>1, <1>2, <1>3, <1>4, <1>5 DEF UseNext

(* However often the provider is changed while requests use it, every      *)
(* limiter keeps to its size, the machine's count is never too high, and a *)
(* fresh request calls with the stored key: for any number of requests.    *)
THEOREM UseInvariant == UseSpec => []UseInv
<1>1. UseInit => UseInv
  BY FreshStart DEF UseInit, NothingUnderWay
<1> QED BY <1>1, UseStepInv, CatalogueInvariantInUse, PTL DEF UseSpec

(* max_concurrency holds for the requests routed since the last change.    *)
LEMMA InvGivesMax == UseInv => FreshWithinMax
<1> DEFINE fresh == {r \in Calling : request[r].fresh}
<1> SUFFICES ASSUME UseInv, settled, fresh # {}
             PROVE  Cardinality(fresh) <= provider.max
  BY DEF FreshWithinMax
<1>1. PICK q \in Requests : q \in Calling /\ request[q].fresh
  BY DEF Calling
<1>2. \A r \in fresh : /\ r \in Requests /\ r \in Calling
                       /\ request[r].limiter = current.id
                       /\ request[r].max = provider.max
  BY DEF UseInv, RowsFresh, InLimiter, Calling
<1>3. fresh \in SUBSET CallingIn(request, current.id)
  BY <1>2 DEF CallingIn, Calling
<1>4. Cardinality(CallingIn(request, current.id)) <= provider.max
  <2>1. SlotsOf(request)
    BY SlotsAreOf DEF UseInv
  <2> QED BY <1>1, <1>2, <2>1 DEF SlotsOf, Calling
<1>5. provider.max \in {1, 2}
  BY <1>1, <1>2, RequestsTyped DEF UseInv, RequestRecord
<1> HIDE DEF fresh
<1> QED BY <1>3, <1>4, <1>5, CallingFinite, FS_Subset, FS_CardinalityType

(* The calls of the requests routed since the provider was last changed    *)
(* never exceed its max_concurrency, as long as none routed before that    *)
(* change has taken a slot since; when one has, an old size comes back.    *)
THEOREM FreshWithinMaxHolds == UseSpec => []FreshWithinMax
BY UseInvariant, InvGivesMax, PTL
=============================================================================
