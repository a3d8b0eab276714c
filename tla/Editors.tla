------------------------------ MODULE Editors ------------------------------
(***************************************************************************)
(* The editors of the panel for a provider, a model and a client key, over *)
(* the rows of the hub.  An editor is filled from what the hub showed when *)
(* it was opened and sends a PATCH when it is saved; meanwhile a sync, the *)
(* command line or another panel changes the row, and a call or its answer *)
(* may be lost.  The provider's and the key's editor send every field, the *)
(* model's only what was changed.  One dialog is open at a time.           *)
(***************************************************************************)
EXTENDS Naturals, FiniteSets

CONSTANTS
    Null,       \* null, or no row
    MaxEdits,   \* bound on the edits, all dialogs together
    MaxOthers,  \* bound on what others change
    MaxLost     \* bound on lost calls and answers

VARIABLES
    row,        \* the provider
    model,      \* one of its models
    key,        \* a client key
    dialog,     \* the open editor
    edits, others, lost

editorsVars == <<row, model, key, dialog, edits, others, lost>>

\* One object over another: what `a` does not say is as in `b`.
Over(a, b) == [f \in DOMAIN a \cup DOMAIN b |-> IF f \in DOMAIN a THEN a[f] ELSE b[f]]

\* What a patch, an object with some of the fields, says of field f.
Given(patch, f, current) == IF f \in DOMAIN patch THEN patch[f] ELSE current

Or(a, b) == IF a = Null THEN b ELSE a

Without(object, fields) == [f \in DOMAIN object \ fields |-> object[f]]

-----------------------------------------------------------------------------
(* The provider's row.  `address` stands for the texts that must be there  *)
(* (base URL, MAC, broadcast address), `rest` for the options the editor   *)
(* has no field for.                                                       *)

\* intIn, for the numbers one types: 0 is out of every range.
OutOfRange(n) == n = 0

NodeRefused(n) == n # Null /\ n.idle # Null /\ n.shutdown = "" /\ n.control = ""

\* normalizeNode: what is not sent gets its default.
NormalizeNode(n) == IF n = Null THEN Null ELSE [n EXCEPT !.wake = Or(@, 3)]

SchemeNeedsHeader(current, patch) ==
    /\ {"scheme", "header"} \cap DOMAIN patch # {}
    /\ Given(patch, "scheme", current.scheme) = "header"

\* What ProviderStore.update (and create, over blank values) turns away.
ProviderRefused(current, patch) ==
    \/ Given(patch, "address", "a") = ""
    \/ SchemeNeedsHeader(current, patch) /\ Given(patch, "header", current.header) \in {Null, ""}
    \/ OutOfRange(Given(patch, "max", Null))
    \/ NodeRefused(Given(patch, "node", Null))

\* A likely mistake: the header's name changes only when it is sent.
UpdateAsSent(current, patch) ==
    [Over(patch, current) EXCEPT !.secret = IF @ = "" THEN Null ELSE @, !.node = NormalizeNode(@)]

\* ProviderStore.update: the header's name goes with the scheme.
UpdateProvider(current, patch) ==
    LET new == Over(patch, current)
    IN  [new EXCEPT
           !.header = IF SchemeNeedsHeader(current, patch) THEN @
                      ELSE IF {"scheme", "header"} \cap DOMAIN patch = {} THEN current.header
                      ELSE Null,
           !.secret = IF @ = "" THEN Null ELSE @,
           !.node = NormalizeNode(@)]

NewRow == [address |-> "", scheme |-> "bearer", header |-> Null, secret |-> Null, max |-> Null,
           options |-> [usage |-> "unset", rest |-> Null], locality |-> "cloud",
           enabled |-> TRUE, node |-> Null]

\* providerView: everything but the secret.
ProviderView(p) == Over([hasKey |-> p.secret # Null], Without(p, {"secret"}))

-----------------------------------------------------------------------------
(* The provider's form (lib/provider-form.ts).                             *)

BlankDraft == [address |-> "", scheme |-> "bearer", header |-> "", typed |-> "", clear |-> FALSE,
               max |-> Null, enabled |-> TRUE, stream |-> TRUE, rest |-> Null,
               locality |-> "cloud", isNode |-> FALSE, wake |-> 3, idle |-> Null,
               control |-> "", shutdown |-> ""]

ApplyNode(d, n) ==
    IF n = Null THEN d ELSE [d EXCEPT !.isNode = TRUE, !.wake = n.wake, !.idle = n.idle,
                                      !.control = n.control, !.shutdown = n.shutdown]

DraftFromProvider(p) ==
    ApplyNode([BlankDraft EXCEPT
                 !.address = p.address, !.scheme = p.scheme, !.header = Or(p.header, ""),
                 !.max = p.max, !.enabled = p.enabled, !.locality = p.locality,
                 !.stream = p.options.usage # "no", !.rest = p.options.rest],
              p.node)

\* The preset of a machine with an agent.
DraftFromPreset ==
    ApplyNode([BlankDraft EXCEPT !.max = 1, !.locality = "local"],
              [wake |-> 3, idle |-> 1, control |-> "u", shutdown |-> ""])

OptionsOf(d) == [usage |-> IF d.stream THEN "unset" ELSE "no", rest |-> d.rest]

NodeOf(d) == [wake |-> d.wake, idle |-> d.idle, control |-> d.control, shutdown |-> d.shutdown]

\* The key is only sent when one was typed or its removal asked for; a POST
\* leaves out what would be null.
ToInput(d, mode) ==
    LET whole == [address |-> d.address, scheme |-> d.scheme,
                  header |-> IF d.scheme = "header" THEN d.header ELSE Null,
                  max |-> d.max, options |-> OptionsOf(d), locality |-> d.locality,
                  enabled |-> d.enabled, node |-> IF d.isNode THEN NodeOf(d) ELSE Null]
        absent == IF mode = "edit" THEN {} ELSE {f \in {"header", "node"} : whole[f] = Null}
        secret == IF d.clear THEN [secret |-> Null]
                  ELSE IF d.typed # "" THEN [secret |-> d.typed] ELSE <<>>
    IN  Over(secret, Without(whole, absent))

ProviderProblems(d) ==
    \/ d.address = ""
    \/ d.scheme = "header" /\ d.header = ""
    \/ d.isNode /\ d.idle # Null /\ d.control = "" /\ d.shutdown = ""

ProviderFields(mode, view, d) ==
    {"address", "scheme", "max", "stream", "locality", "isNode"}
    \cup (IF mode = "edit" THEN {"enabled"} ELSE {})
    \cup (IF d.scheme = "header" THEN {"header"} ELSE {})
    \cup (IF d.scheme # "none" /\ ~d.clear THEN {"typed"} ELSE {})
    \cup (IF d.scheme # "none" /\ mode = "edit" /\ view.hasKey THEN {"clear"} ELSE {})
    \cup (IF d.isNode THEN {"wake", "idle", "control", "shutdown"} ELSE {})

ProviderValues == [address |-> {"", "b"}, scheme |-> {"bearer", "header", "none"},
                   header |-> {"", "x"}, typed |-> {"", "k2"}, clear |-> BOOLEAN,
                   max |-> {Null, 0, 2}, enabled |-> BOOLEAN, stream |-> BOOLEAN,
                   locality |-> {"local", "cloud"}, isNode |-> BOOLEAN,
                   wake |-> {Null, 1}, idle |-> {Null, 1}, control |-> {"", "u"},
                   shutdown |-> {"", "u"}]

-----------------------------------------------------------------------------
(* The model's row and its editor (store/models.ts, lib/models.ts).        *)

Resettable == {"name", "description", "context", "locality"}

\* toOverrides: an empty description is dropped when the row is read.
Overrides(m) ==
    IF Given(m.overrides, "description", Null) = "" THEN Without(m.overrides, {"description"})
    ELSE m.overrides

\* resolveModel: the owner's word, else the provider's, else what is assumed; a
\* provider can only lower a model to "cloud".
Resolve(m, locality) ==
    [name |-> Or(m.reported.name, "id"), description |-> Or(m.reported.description, ""),
     context |-> m.reported.context, enabled |-> TRUE,
     locality |-> IF m.reported.locality = "cloud" THEN "cloud" ELSE locality]

ModelView(m, locality) ==
    [fields |-> Over(Overrides(m), Resolve(m, locality)),
     reported |-> m.reported, overrides |-> Overrides(m)]

ModelRefused(patch) == Given(patch, "name", Null) = "" \/ OutOfRange(Given(patch, "context", Null))

\* ModelStore.patch: null takes an override away.
PatchModel(m, patch) ==
    LET removed == {f \in DOMAIN patch : patch[f] = Null}
    IN  [m EXCEPT !.overrides = Without(Over(patch, @), removed)]

\* resolvedFromReported: the fields without the owner's word (for a kind nobody
\* reports it shows `chat`, where the hub guesses from the name; left out).
FromReported(view) ==
    [name |-> Or(view.reported.name, "id"), description |-> Or(view.reported.description, ""),
     context |-> view.reported.context, locality |-> Or(view.reported.locality, view.fields.locality)]

\* A likely mistake: every field is sent as the editor shows it.
PatchAll(view, d, reset) ==
    [f \in Resettable \cup {"enabled"} |-> IF f \in reset THEN Null ELSE d[f]]

\* What was reset is sent as null, what was changed as it is, and nothing else.
PatchFrom(view, d, reset) ==
    [f \in reset \cup {f \in DOMAIN d : d[f] # view.fields[f]} |-> IF f \in reset THEN Null ELSE d[f]]

ModelValues == [name |-> {"", "n"}, description |-> {"", "t"}, context |-> {Null, 0, 2},
                locality |-> {"local", "cloud"}, enabled |-> BOOLEAN]

-----------------------------------------------------------------------------
(* The client key's row and its editor (store/keys.ts, pages/Keys.tsx).    *)

KeyRefused(patch) == OutOfRange(Given(patch, "rpm", Null))

DraftFromKey(k) == [local |-> k.local, restrict |-> k.allowed # Null,
                    allowed |-> Or(k.allowed, {}), rpm |-> k.rpm]

KeyBody(d) == [local |-> d.local, allowed |-> IF d.restrict THEN d.allowed ELSE Null, rpm |-> d.rpm]

KeyProblems(d) == d.restrict /\ d.allowed = {}

NewKey == [local |-> FALSE, allowed |-> Null, rpm |-> Null]

KeyValues == [local |-> BOOLEAN, restrict |-> BOOLEAN, allowed |-> {{}, {"m"}}, rpm |-> {Null, 0, 2}]

-----------------------------------------------------------------------------
NoDialog == [at |-> "closed"]

Opened(kind, mode, view, draft) ==
    [at |-> "editing", kind |-> kind, mode |-> mode, view |-> view, draft |-> draft,
     reset |-> {}, touched |-> {}]

OpenDialog ==
    /\ dialog = NoDialog
    /\ \/ \E draft \in {BlankDraft, DraftFromPreset} :
             dialog' = Opened("provider", "create", Null, draft)
       \/ /\ row # Null
          /\ LET view == ProviderView(row)
             IN  dialog' = Opened("provider", "edit", view, DraftFromProvider(view))
       \/ /\ model # Null
          /\ LET view == ModelView(model, row.locality)
             IN  dialog' = Opened("model", "edit", view, view.fields)
       \/ dialog' = Opened("key", "create", Null, DraftFromKey(NewKey))
       \/ key # Null /\ dialog' = Opened("key", "edit", key, DraftFromKey(key))
    /\ UNCHANGED <<row, model, key, edits, others, lost>>

Editing(kind) == dialog.at = "editing" /\ dialog.kind = kind

Set(f, v) ==
    /\ edits < MaxEdits /\ edits' = edits + 1
    /\ dialog' = [dialog EXCEPT !.draft[f] = v, !.reset = @ \ {f}, !.touched = @ \cup {f}]
    /\ UNCHANGED <<row, model, key, others, lost>>

EditProvider ==
    /\ Editing("provider")
    /\ \E f \in ProviderFields(dialog.mode, dialog.view, dialog.draft) :
          \E v \in ProviderValues[f] \ {dialog.draft[f]} : Set(f, v)

EditModel ==
    /\ Editing("model")
    /\ \E f \in DOMAIN ModelValues : \E v \in ModelValues[f] \ {dialog.draft[f]} : Set(f, v)

\* "Use what the provider reports", for a field with the owner's word.
ResetField ==
    /\ Editing("model")
    /\ edits < MaxEdits /\ edits' = edits + 1
    /\ \E f \in (Resettable \cap DOMAIN dialog.view.overrides) \ dialog.reset :
          dialog' = [dialog EXCEPT !.draft[f] = FromReported(dialog.view)[f], !.reset = @ \cup {f},
                                   !.touched = @ \cup {f}]
    /\ UNCHANGED <<row, model, key, others, lost>>

EditKey ==
    /\ Editing("key")
    /\ \E f \in DOMAIN KeyValues \ (IF dialog.draft.restrict THEN {} ELSE {"allowed"}) :
          \E v \in KeyValues[f] \ {dialog.draft[f]} : Set(f, v)

Problems ==
    CASE dialog.kind = "provider" -> ProviderProblems(dialog.draft)
      [] dialog.kind = "key" -> KeyProblems(dialog.draft)
      [] dialog.kind = "model" -> FALSE

\* The call is on its way; the dialog is locked.
Submit ==
    /\ dialog.at = "editing" /\ ~Problems
    /\ dialog' = [dialog EXCEPT !.at = "sent"]
    /\ UNCHANGED <<row, model, key, edits, others, lost>>

Close ==
    /\ dialog.at = "editing"
    /\ dialog' = NoDialog
    /\ UNCHANGED <<row, model, key, edits, others, lost>>

-----------------------------------------------------------------------------
(* The hub handles the call in one piece.                                  *)

Answer(ok) == dialog' = [dialog EXCEPT !.at = IF ok THEN "saved" ELSE "refused"]

SaveProvider ==
    LET patch == ToInput(dialog.draft, dialog.mode)
        current == IF dialog.mode = "create" THEN NewRow ELSE row
        ok == /\ (dialog.mode = "create") = (row = Null)
              /\ ~ProviderRefused(current, patch)
    IN  /\ dialog.at = "sent" /\ dialog.kind = "provider"
        /\ row' = IF ok THEN UpdateProvider(current, patch) ELSE row
        /\ Answer(ok)
        /\ UNCHANGED <<model, key, edits, others, lost>>

SaveModel ==
    LET patch == PatchFrom(dialog.view, dialog.draft, dialog.reset)
        ok == model # Null /\ ~ModelRefused(patch)
    IN  /\ dialog.at = "sent" /\ dialog.kind = "model"
        /\ model' = IF ok THEN PatchModel(model, patch) ELSE model
        /\ Answer(ok)
        /\ UNCHANGED <<row, key, edits, others, lost>>

\* The key of the model stands for its name, which no second key may have.
SaveKey ==
    LET patch == KeyBody(dialog.draft)
        ok == (dialog.mode = "create") = (key = Null) /\ ~KeyRefused(patch)
    IN  /\ dialog.at = "sent" /\ dialog.kind = "key"
        /\ key' = IF ok THEN patch ELSE key
        /\ Answer(ok)
        /\ UNCHANGED <<row, model, edits, others, lost>>

\* The dialog closes when the answer is good, and shows the error otherwise.
HearAnswer ==
    /\ dialog.at \in {"saved", "refused"}
    /\ dialog' = IF dialog.at = "saved" THEN NoDialog ELSE [dialog EXCEPT !.at = "editing"]
    /\ UNCHANGED <<row, model, key, edits, others, lost>>

\* No connection: the person may press the button again, whatever the hub did.
LoseCall ==
    /\ dialog.at \in {"sent", "saved", "refused"} /\ lost < MaxLost
    /\ dialog' = [dialog EXCEPT !.at = "editing"]
    /\ lost' = lost + 1
    /\ UNCHANGED <<row, model, key, edits, others>>

-----------------------------------------------------------------------------
(* Others change the rows: another panel, the command line, a sync.        *)

\* Calls of the admin API that are no editor's, one matter each.
ProviderPatches ==
    [enabled : {FALSE}] \cup [scheme : {"header", "none"}] \cup [header : {Null, "y"}]
    \cup [scheme : {"header"}, header : {"y"}] \cup [secret : {Null, "", "k3"}] \cup [max : {3}]
    \cup [node : {Null, [wake |-> Null, idle |-> 1, control |-> "", shutdown |-> "w"],
                  [wake |-> 2, idle |-> 1, control |-> "", shutdown |-> ""]}]

Reports == {[name |-> Null, description |-> "r", context |-> 1, locality |-> "cloud"],
            [name |-> Null, description |-> Null, context |-> Null, locality |-> "local"],
            [name |-> Null, description |-> Null, context |-> Null, locality |-> Null]}

Other == others < MaxOthers /\ others' = others + 1 /\ UNCHANGED <<dialog, edits, lost>>

PatchProviderByOthers ==
    /\ row # Null
    /\ \E patch \in ProviderPatches :
          ~ProviderRefused(row, patch) /\ row' = UpdateProvider(row, patch)
    /\ UNCHANGED <<model, key>>

\* One field: most often the switch in the list, or many of them at once.
PatchModelByOthers ==
    /\ model # Null
    /\ \E f \in DOMAIN ModelValues : \E v \in ModelValues[f] \cup {Null} :
          LET patch == [g \in {f} |-> v]
          IN  (f = "enabled" => v # Null) /\ ~ModelRefused(patch)
                /\ model' = PatchModel(model, patch)
    /\ UNCHANGED <<row, key>>

PatchKeyByOthers ==
    /\ key # Null
    /\ \E allowed \in {Null, {}, {"m"}} : key' = [key EXCEPT !.allowed = allowed]
    /\ UNCHANGED <<row, model>>

PatchByOthers ==
    Other /\ (PatchProviderByOthers \/ PatchModelByOthers \/ PatchKeyByOthers)

\* A sync hears something new of the model.
SyncByOthers ==
    /\ Other
    /\ model # Null
    /\ \E report \in Reports : model' = [model EXCEPT !.reported = report]
    /\ UNCHANGED <<row, key>>

\* The models of a provider go with it.
DeleteProviderByOthers == row # Null /\ row' = Null /\ model' = Null /\ UNCHANGED key

DeleteKeyByOthers == key # Null /\ key' = Null /\ UNCHANGED <<row, model>>

DeleteByOthers == Other /\ (DeleteProviderByOthers \/ DeleteKeyByOthers)

-----------------------------------------------------------------------------
Nodes == {Null} \cup [wake : {1}, idle : {Null, 1}, control : {"u"}, shutdown : {""}]
               \cup [wake : {1}, idle : {Null, 1}, control : {""}, shutdown : {"w"}]

BaseRow == [NewRow EXCEPT !.address = "a", !.options.rest = "r"]

InitialRows ==
    {[BaseRow EXCEPT !.options.usage = usage] : usage \in {"yes", "no"}}
    \cup {[BaseRow EXCEPT !.scheme = "header", !.header = "h"], [BaseRow EXCEPT !.scheme = "none"]}
    \cup {[BaseRow EXCEPT !.secret = "k1", !.node = node] : node \in Nodes}

Models ==
    [reported : Reports,
     overrides : {<<>>, [context |-> 2], [locality |-> "local"],
                  [description |-> ""], [enabled |-> FALSE, name |-> "o"]}]

Keys == [local : BOOLEAN, allowed : {Null, {}, {"m"}}, rpm : {Null, 1}]

\* Any row of one of the tables, as the earlier use of the hub has left it.
EditorsInit ==
    /\ \/ row = Null /\ model = Null /\ key = Null
       \/ row \in InitialRows /\ model = Null /\ key = Null
       \/ row = BaseRow /\ model \in Models /\ key = Null
       \/ row = Null /\ model = Null /\ key \in Keys
    /\ dialog = NoDialog /\ edits = 0 /\ others = 0 /\ lost = 0

EditorsNext ==
    \/ OpenDialog \/ EditProvider \/ EditModel \/ ResetField \/ EditKey \/ Submit \/ Close
    \/ SaveProvider \/ SaveModel \/ SaveKey \/ HearAnswer \/ LoseCall
    \/ PatchByOthers \/ SyncByOthers \/ DeleteByOthers

EditorsSpec == EditorsInit /\ [][EditorsNext]_editorsVars

-----------------------------------------------------------------------------
(* What the rows, the drafts and the dialog are made of.                    *)

NodeRecords == [wake : {1, 2, 3}, idle : {Null, 1}, control : {"", "u"}, shutdown : {"", "u", "w"}]

NodeDrafts == [wake : {Null, 1, 2, 3}, idle : {Null, 1}, control : {"", "u"},
               shutdown : {"", "u", "w"}]

ProviderRecords ==
    [address : {"a", "b"}, scheme : {"bearer", "header", "none"}, header : {Null, "h", "x", "y"},
     secret : {Null, "k1", "k2", "k3"}, max : {Null, 1, 2, 3},
     options : [usage : {"unset", "yes", "no"}, rest : {Null, "r"}],
     locality : {"local", "cloud"}, enabled : BOOLEAN, node : NodeRecords \cup {Null}]

KeyRecords == [local : BOOLEAN, allowed : {Null, {}, {"m"}}, rpm : {Null, 1, 2}]

ProviderDrafts ==
    [address : {"", "a", "b"}, scheme : {"bearer", "header", "none"}, header : {"", "h", "x", "y"},
     typed : {"", "k2"}, clear : BOOLEAN, max : {Null, 0, 1, 2, 3}, enabled : BOOLEAN,
     stream : BOOLEAN, rest : {Null, "r"}, locality : {"local", "cloud"}, isNode : BOOLEAN,
     wake : {Null, 1, 2, 3}, idle : {Null, 1}, control : {"", "u"}, shutdown : {"", "u", "w"}]

KeyDrafts == [local : BOOLEAN, restrict : BOOLEAN, allowed : {{}, {"m"}}, rpm : {Null, 0, 1, 2}]

ModelFields == Resettable \cup {"enabled"}

ASSUME NullIsNoField ==
    /\ Null \notin Nat /\ Null \notin {"", "h", "x", "y", "k1", "k2", "k3", "r"}
    /\ Null \notin {{}, {"m"}}
    /\ Null \notin NodeDrafts /\ Null \notin ProviderRecords /\ Null \notin KeyRecords

ASSUME BoundsAreNumbers == MaxEdits \in Nat /\ MaxOthers \in Nat /\ MaxLost \in Nat

\* What was not touched in a dialog is as it was when the dialog was opened.
DialogOK(d) ==
    /\ DOMAIN d = {"at", "kind", "mode", "view", "draft", "reset", "touched"}
    /\ d.at \in {"editing", "sent", "saved", "refused"} /\ d.mode \in {"create", "edit"}
    /\ \/ /\ d.kind = "provider" /\ d.draft \in ProviderDrafts
          /\ d.at = "sent" => ~ProviderProblems(d.draft)
          /\ "typed" \notin d.touched => d.draft.typed = ""
          /\ "clear" \notin d.touched => ~d.draft.clear
       \/ /\ d.kind = "model" /\ DOMAIN d.draft = ModelFields
          /\ d.reset \subseteq d.touched \cap Resettable /\ d.touched \subseteq ModelFields
          /\ \A f \in ModelFields \ d.touched : d.draft[f] = d.view.fields[f]
       \/ d.kind = "key" /\ d.draft \in KeyDrafts

EditorsTypeOK ==
    /\ row \in ProviderRecords \cup {Null}
    /\ model # Null => /\ row # Null /\ DOMAIN model = {"reported", "overrides"}
                       /\ DOMAIN model.overrides \subseteq ModelFields
    /\ key \in KeyRecords \cup {Null}
    /\ dialog = NoDialog \/ DialogOK(dialog)
    /\ edits \in 0 .. MaxEdits /\ others \in 0 .. MaxOthers /\ lost \in 0 .. MaxLost

\* Unsaid and said to be so are the same for the one option the form writes
\* only when it is off.
Meaning(p) == [p EXCEPT !.options.usage = @ # "no"]

(* No sequence of partial changes, from wherever, leaves a provider that   *)
(* asks for a header it does not name, keeps one it does not send, or is   *)
(* to be shut down when idle without an address to ask.  And whatever is   *)
(* stored, the editor can be opened and saved without a change: it reads   *)
(* every setting, and keeps those it has no field for ("Options this form  *)
(* has no field for are carried through untouched", provider-form.ts:25).  *)
RowInOrder(p) == (p.header # Null <=> p.scheme = "header") /\ ~NodeRefused(p.node)

\* The provider's editor, opened and saved at once.
KeptAsItIs(p) ==
    LET input == ToInput(DraftFromProvider(ProviderView(p)), "edit")
    IN  ~ProviderRefused(p, input) /\ Meaning(UpdateProvider(p, input)) = Meaning(p)

RecordsInv ==
    /\ EditorsTypeOK
    /\ row # Null => RowInOrder(row) /\ KeptAsItIs(row)
    /\ model # Null => ~ModelRefused(model.overrides)
    /\ key # Null => ~KeyRefused(key) /\ KeyBody(DraftFromKey(key)) = key

\* What the form shows once it has been saved.
OnceSaved(d) ==
    ApplyNode([BlankDraft EXCEPT
                 !.address = d.address, !.scheme = d.scheme,
                 !.header = IF d.scheme = "header" THEN d.header ELSE "",
                 !.max = d.max, !.enabled = d.enabled, !.locality = d.locality,
                 !.stream = d.stream, !.rest = d.rest],
              IF d.isNode THEN NormalizeNode(NodeOf(d)) ELSE Null)

\* The stored provider is what the form shows, and its secret is another one
\* only if one was typed or its removal asked for.
ProviderAsShown(d, touched) ==
    /\ DraftFromProvider(ProviderView(row')) = OnceSaved(d)
    /\ row # Null /\ touched \cap {"typed", "clear"} = {} => row'.secret = row.secret

Emptied(f, v) == v = Null \/ (f = "description" /\ v = "")

\* The owner's word on a model changes where it was touched, to what the
\* editor shows or back to the provider's.
ModelAsShown(view, d, touched, reset) ==
    LET was == Overrides(model)
        is == ModelView(model', row.locality)
    IN  /\ \A f \in ModelFields \ touched :
              Given(is.overrides, f, Null) = Given(was, f, Null)
        /\ \A f \in reset : f \notin DOMAIN is.overrides
        /\ \A f \in touched \ reset :
              d[f] # view.fields[f] /\ ~Emptied(f, d[f]) => is.fields[f] = d[f]

(* "A save never rewrites what it did not touch" (lib/models.ts:90), "a    *)
(* key is only sent when the person typed one" (provider-form.ts:194), and *)
(* what is stored is what the editor shows, whatever others have changed   *)
(* since it was opened and however often the call is repeated.             *)
SavesAsShown ==
    [][dialog.at = "sent" /\ dialog'.at = "saved" =>
         CASE dialog.kind = "provider" -> ProviderAsShown(dialog.draft, dialog.touched)
           [] dialog.kind = "model" ->
                ModelAsShown(dialog.view, dialog.draft, dialog.touched, dialog.reset)
           [] dialog.kind = "key" -> KeyBody(dialog.draft) = key']_editorsVars
=============================================================================
