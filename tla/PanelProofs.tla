----------------------------- MODULE PanelProofs -----------------------------
(***************************************************************************)
(* The panel's page never mixes up what it asked for, its end of the log   *)
(* is the end, and it signs out only for a refusal that concerns it, for   *)
(* any filters, pages of any size and any number of tokens and changes;    *)
(* its editors (first) store nothing the hub would turn away or they do    *)
(* not show, for any number of edits, changes by others and lost calls.    *)
(***************************************************************************)
EXTENDS LogPage, Editors, SequenceFacts, FiniteSetTheorems

(* The editors: what their forms read from a row and write to it.          *)

\* What a patch makes of a row, field by field.
Patched(p, patch) ==
    [address |-> Given(patch, "address", p.address), scheme |-> Given(patch, "scheme", p.scheme),
     header |-> IF SchemeNeedsHeader(p, patch) THEN Given(patch, "header", p.header)
                ELSE IF {"scheme", "header"} \cap DOMAIN patch = {} THEN p.header ELSE Null,
     secret |-> IF Given(patch, "secret", p.secret) = "" THEN Null ELSE Given(patch, "secret", p.secret),
     max |-> Given(patch, "max", p.max), options |-> Given(patch, "options", p.options),
     locality |-> Given(patch, "locality", p.locality), enabled |-> Given(patch, "enabled", p.enabled),
     node |-> NormalizeNode(Given(patch, "node", p.node))]

RowFields == {"address", "scheme", "header", "secret", "max", "options", "locality", "enabled", "node"}

(* UpdateProvider, field by field.                                         *)
LEMMA PatchedFields ==
  ASSUME NEW p, DOMAIN p = RowFields, NEW patch, DOMAIN patch \subseteq RowFields
  PROVE  UpdateProvider(p, patch) = Patched(p, patch)
<1> DEFINE new == Over(patch, p)
<1>1. DOMAIN new = RowFields /\ \A f \in RowFields : new[f] = Given(patch, f, p[f])
  BY DEF Over, Given
<1> DEFINE h == IF SchemeNeedsHeader(p, patch) THEN new.header
                ELSE IF {"scheme", "header"} \cap DOMAIN patch = {} THEN p.header ELSE Null
           k == IF new.secret = "" THEN Null ELSE new.secret
           m == NormalizeNode(new.node)
<1>2. UpdateProvider(p, patch) = [new EXCEPT !.header = h, !.secret = k, !.node = m]
  BY DEF UpdateProvider
<1>3. Patched(p, patch) =
        [address |-> new["address"], scheme |-> new["scheme"], header |-> h, secret |-> k,
         max |-> new["max"], options |-> new["options"], locality |-> new["locality"],
         enabled |-> new["enabled"], node |-> m]
  <2>1. /\ new["address"] = Given(patch, "address", p.address)
        /\ new["scheme"] = Given(patch, "scheme", p.scheme)
        /\ new["header"] = Given(patch, "header", p.header)
        /\ new["secret"] = Given(patch, "secret", p.secret)
        /\ new["max"] = Given(patch, "max", p.max)
        /\ new["options"] = Given(patch, "options", p.options)
        /\ new["locality"] = Given(patch, "locality", p.locality)
        /\ new["enabled"] = Given(patch, "enabled", p.enabled)
        /\ new["node"] = Given(patch, "node", p.node)
    BY <1>1 DEF RowFields
  <2> HIDE DEF new
  <2> QED BY <2>1, Zenon DEF Patched
<1> HIDE DEF new, h, k, m
<1>4. [new EXCEPT !.header = h, !.secret = k, !.node = m] =
        [address |-> new["address"], scheme |-> new["scheme"], header |-> h, secret |-> k,
         max |-> new["max"], options |-> new["options"], locality |-> new["locality"],
         enabled |-> new["enabled"], node |-> m]
  <2> DEFINE g == [f \in RowFields |-> IF f = "header" THEN h ELSE IF f = "secret" THEN k
                                       ELSE IF f = "node" THEN m ELSE new[f]]
  <2>1. [new EXCEPT !.header = h, !.secret = k, !.node = m] = g
    BY <1>1 DEF RowFields
  <2>2. g = [address |-> new["address"], scheme |-> new["scheme"], header |-> h, secret |-> k,
             max |-> new["max"], options |-> new["options"], locality |-> new["locality"],
             enabled |-> new["enabled"], node |-> m]
    BY DEF RowFields
  <2> QED BY <2>1, <2>2, Zenon
<1> QED BY <1>2, <1>3, <1>4, Zenon

(* What the form sends. *)
Sends(d, mode, patch) ==
    /\ DOMAIN patch \subseteq RowFields
    /\ \A f \in {"address", "scheme", "max", "locality", "enabled"} :
          f \in DOMAIN patch /\ patch[f] = d[f]
    /\ "options" \in DOMAIN patch /\ patch["options"] = OptionsOf(d)
    /\ d.scheme = "header" /\ d.header # Null =>
          "header" \in DOMAIN patch /\ patch["header"] = d.header
    /\ "header" \in DOMAIN patch =>
          patch["header"] = IF d.scheme = "header" THEN d.header ELSE Null
    /\ d.isNode /\ NodeOf(d) # Null =>
          "node" \in DOMAIN patch /\ patch["node"] = NodeOf(d)
    /\ ~d.isNode /\ mode = "edit" =>
          "node" \in DOMAIN patch /\ patch["node"] = Null
    /\ ~d.isNode /\ mode # "edit" => "node" \notin DOMAIN patch
    /\ d.clear => "secret" \in DOMAIN patch /\ patch["secret"] = Null
    /\ ~d.clear /\ d.typed # "" => "secret" \in DOMAIN patch /\ patch["secret"] = d.typed
    /\ ~d.clear /\ d.typed = "" => "secret" \notin DOMAIN patch

(* The form sends every field, and the secret only when one was said.      *)
LEMMA InputFields ==
  ASSUME NEW d, NEW mode
  PROVE  Sends(d, mode, ToInput(d, mode))
<1> DEFINE whole == [address |-> d.address, scheme |-> d.scheme,
                     header |-> IF d.scheme = "header" THEN d.header ELSE Null,
                     max |-> d.max, options |-> OptionsOf(d), locality |-> d.locality,
                     enabled |-> d.enabled, node |-> IF d.isNode THEN NodeOf(d) ELSE Null]
           absent == IF mode = "edit" THEN {} ELSE {f \in {"header", "node"} : whole[f] = Null}
           secret == IF d.clear THEN [secret |-> Null]
                     ELSE IF d.typed # "" THEN [secret |-> d.typed] ELSE <<>>
           sent == Without(whole, absent)
           patch == ToInput(d, mode)
<1>1. patch = Over(secret, sent)
  BY DEF ToInput
<1>2. /\ DOMAIN whole = RowFields \ {"secret"}
      /\ \A f \in {"address", "scheme", "max", "locality", "enabled"} : whole[f] = d[f]
      /\ whole["options"] = OptionsOf(d)
      /\ whole["header"] = IF d.scheme = "header" THEN d.header ELSE Null
      /\ whole["node"] = IF d.isNode THEN NodeOf(d) ELSE Null
  BY DEF RowFields
<1> HIDE DEF whole
<1>3. /\ absent \subseteq {"header", "node"} /\ (mode = "edit" => absent = {})
      /\ \A f \in {"header", "node"} : mode # "edit" => (f \in absent <=> whole[f] = Null)
  OBVIOUS
<1> HIDE DEF absent
<1>4. /\ DOMAIN sent = DOMAIN whole \ absent
      /\ \A f \in DOMAIN sent : sent[f] = whole[f]
  BY DEF Without
<1>5. /\ DOMAIN secret = IF d.clear \/ d.typed # "" THEN {"secret"} ELSE {}
      /\ d.clear => secret["secret"] = Null
      /\ ~d.clear /\ d.typed # "" => secret["secret"] = d.typed
  <2>1. CASE d.clear
    <3>1. secret = [secret |-> Null]
      BY <2>1
    <3> HIDE DEF secret
    <3> QED BY <2>1, <3>1
  <2>2. CASE ~d.clear /\ d.typed # ""
    <3>1. secret = [secret |-> d.typed]
      BY <2>2
    <3> HIDE DEF secret
    <3> QED BY <2>2, <3>1
  <2>3. CASE ~d.clear /\ d.typed = ""
    <3>1. secret = <<>>
      BY <2>3
    <3>2. DOMAIN <<>> = {}
      OBVIOUS
    <3> HIDE DEF secret
    <3>3. DOMAIN secret = {}
      BY <3>1, <3>2, Zenon
    <3> QED BY <2>3, <3>3
  <2> HIDE DEF secret
  <2> QED BY <2>1, <2>2, <2>3
<1> HIDE DEF secret, sent, patch
<1>6. /\ DOMAIN patch = DOMAIN secret \cup DOMAIN sent
      /\ \A f \in DOMAIN patch : patch[f] = IF f \in DOMAIN secret THEN secret[f] ELSE sent[f]
  BY <1>1 DEF Over
<1>7. DOMAIN sent = (RowFields \ {"secret"}) \ absent
  BY <1>2, <1>4
<1>8. \A f \in RowFields \ {"secret"} :
         f \notin absent => f \in DOMAIN patch /\ patch[f] = whole[f]
  BY <1>4, <1>5, <1>6, <1>7
<1>9. "secret" \in DOMAIN patch <=> "secret" \in DOMAIN secret
  BY <1>6, <1>7
<1>10. "secret" \in DOMAIN secret => patch["secret"] = secret["secret"]
  BY <1>6
<1>11. \A f \in absent : f \notin DOMAIN patch
  BY <1>3, <1>5, <1>6, <1>7
<1>12. DOMAIN patch \subseteq RowFields
  BY <1>5, <1>6, <1>7 DEF RowFields
<1>13. \A f \in {"address", "scheme", "max", "locality", "enabled"} :
          f \in DOMAIN patch /\ patch[f] = d[f]
  BY <1>2, <1>3, <1>8 DEF RowFields
<1>14. "options" \in DOMAIN patch /\ patch["options"] = OptionsOf(d)
  BY <1>2, <1>3, <1>8 DEF RowFields
<1>15. d.scheme = "header" /\ d.header # Null =>
          "header" \in DOMAIN patch /\ patch["header"] = d.header
  BY <1>2, <1>3, <1>8 DEF RowFields
<1>18. "header" \in DOMAIN patch => patch["header"] = IF d.scheme = "header" THEN d.header ELSE Null
  BY <1>2, <1>3, <1>8, <1>11 DEF RowFields
<1>16. /\ d.isNode /\ NodeOf(d) # Null => "node" \in DOMAIN patch /\ patch["node"] = NodeOf(d)
       /\ ~d.isNode /\ mode = "edit" => "node" \in DOMAIN patch /\ patch["node"] = Null
       /\ ~d.isNode /\ mode # "edit" => "node" \notin DOMAIN patch
  BY <1>2, <1>3, <1>8, <1>11 DEF RowFields
<1>17. /\ d.clear => "secret" \in DOMAIN patch /\ patch["secret"] = Null
       /\ ~d.clear /\ d.typed # "" => "secret" \in DOMAIN patch /\ patch["secret"] = d.typed
       /\ ~d.clear /\ d.typed = "" => "secret" \notin DOMAIN patch
  BY <1>5, <1>9, <1>10
<1> QED BY <1>12, <1>13, <1>14, <1>15, <1>16, <1>17, <1>18, Zenon DEF patch, Sends

(* What becomes of a node's settings when they are stored.                 *)
LEMMA NodesNormalised ==
  ASSUME NEW n \in NodeDrafts \cup {Null}
  PROVE  /\ n = Null => NormalizeNode(n) = Null
         /\ n # Null => /\ NormalizeNode(n) \in NodeRecords /\ NormalizeNode(n) # Null
                        /\ NormalizeNode(n).wake = Or(n.wake, 3)
                        /\ NormalizeNode(n).idle = n.idle
                        /\ NormalizeNode(n).control = n.control
                        /\ NormalizeNode(n).shutdown = n.shutdown
         /\ NodeRefused(NormalizeNode(n)) <=> NodeRefused(n)
<1>1. CASE n = Null
  BY <1>1 DEF NormalizeNode
<1>2. CASE n # Null
  <2>1. NormalizeNode(n) = [n EXCEPT !.wake = Or(n.wake, 3)] /\ n \in NodeDrafts
    BY <1>2 DEF NormalizeNode
  <2>2. Or(n.wake, 3) \in {1, 2, 3}
    BY <2>1, NullIsNoField DEF NodeDrafts, Or
  <2>3. /\ NormalizeNode(n) \in NodeRecords
        /\ NormalizeNode(n).wake = Or(n.wake, 3)
        /\ NormalizeNode(n).idle = n.idle
        /\ NormalizeNode(n).control = n.control
        /\ NormalizeNode(n).shutdown = n.shutdown
    BY <2>1, <2>2 DEF NodeDrafts, NodeRecords
  <2>4. NormalizeNode(n) # Null
    <3>1. NormalizeNode(n) \in NodeDrafts
      BY <2>3 DEF NodeDrafts, NodeRecords
    <3> QED BY <3>1, NullIsNoField
  <2> QED BY <1>2, <2>3, <2>4 DEF NodeRefused
<1> QED BY <1>1, <1>2

(* What a patch says is of the kind the row holds. *)
PatchTyped(p, patch) ==
    /\ DOMAIN p = RowFields /\ DOMAIN patch \subseteq RowFields
    /\ p.header \in {Null, "h", "x", "y"}
    /\ Given(patch, "address", p.address) \in {"a", "b"}
    /\ Given(patch, "scheme", p.scheme) \in {"bearer", "header", "none"}
    /\ Given(patch, "header", p.header) \in {Null, "", "h", "x", "y"}
    /\ Given(patch, "secret", p.secret) \in {Null, "", "k1", "k2", "k3"}
    /\ Given(patch, "max", p.max) \in {Null, 1, 2, 3}
    /\ Given(patch, "options", p.options) \in [usage : {"unset", "yes", "no"}, rest : {Null, "r"}]
    /\ Given(patch, "locality", p.locality) \in {"local", "cloud"}
    /\ Given(patch, "enabled", p.enabled) \in BOOLEAN
    /\ Given(patch, "node", p.node) \in NodeDrafts \cup {Null}

(* A patch that is not turned away leaves a row that is in order.          *)
LEMMA PatchedInOrder ==
  ASSUME NEW p, NEW patch, RowInOrder(p), PatchTyped(p, patch), ~ProviderRefused(p, patch)
  PROVE  UpdateProvider(p, patch) \in ProviderRecords /\ RowInOrder(UpdateProvider(p, patch))
<1> DEFINE header == IF SchemeNeedsHeader(p, patch) THEN Given(patch, "header", p.header)
                     ELSE IF {"scheme", "header"} \cap DOMAIN patch = {} THEN p.header ELSE Null
           scheme == Given(patch, "scheme", p.scheme)
           secret == IF Given(patch, "secret", p.secret) = "" THEN Null
                     ELSE Given(patch, "secret", p.secret)
           node == NormalizeNode(Given(patch, "node", p.node))
           new == Patched(p, patch)
<1>1. header \in {Null, "h", "x", "y"} /\ (header # Null <=> scheme = "header")
  <2>1. CASE SchemeNeedsHeader(p, patch)
    BY <2>1 DEF ProviderRefused, SchemeNeedsHeader, PatchTyped
  <2>2. CASE ~SchemeNeedsHeader(p, patch) /\ {"scheme", "header"} \cap DOMAIN patch = {}
    <3>1. scheme = p.scheme
      BY <2>2 DEF Given
    <3> QED BY <2>2, <3>1 DEF RowInOrder, PatchTyped
  <2>3. CASE ~SchemeNeedsHeader(p, patch) /\ {"scheme", "header"} \cap DOMAIN patch # {}
    BY <2>3 DEF SchemeNeedsHeader
  <2> QED BY <2>1, <2>2, <2>3
<1>2. secret \in {Null, "k1", "k2", "k3"}
  BY DEF PatchTyped
<1>3. node \in NodeRecords \cup {Null} /\ ~NodeRefused(node)
  <2>1. ~NodeRefused(Given(patch, "node", p.node))
    BY DEF ProviderRefused, RowInOrder, Given
  <2> QED BY <2>1, NodesNormalised DEF PatchTyped
<1> HIDE DEF header, scheme, secret, node
<1> DEFINE a == Given(patch, "address", p.address)
           n == Given(patch, "max", p.max)
           o == Given(patch, "options", p.options)
           l == Given(patch, "locality", p.locality)
           e == Given(patch, "enabled", p.enabled)
           built == [address |-> a, scheme |-> scheme, header |-> header, secret |-> secret,
                     max |-> n, options |-> o, locality |-> l, enabled |-> e, node |-> node]
<1>4. new = built
  BY Zenon DEF Patched, header, scheme, secret, node
<1>5. /\ a \in {"a", "b"} /\ scheme \in {"bearer", "header", "none"} /\ n \in {Null, 1, 2, 3}
      /\ o \in [usage : {"unset", "yes", "no"}, rest : {Null, "r"}]
      /\ l \in {"local", "cloud"} /\ e \in BOOLEAN
  BY DEF scheme, PatchTyped
<1> HIDE DEF new, a, n, o, l, e
<1>6. built \in ProviderRecords
  BY <1>1, <1>2, <1>3, <1>5 DEF ProviderRecords
<1>7. built.header = header /\ built.scheme = scheme /\ built.node = node
  OBVIOUS
<1>8. RowInOrder(built)
  BY <1>1, <1>3, <1>7 DEF RowInOrder
<1> HIDE DEF built
<1>9. UpdateProvider(p, patch) = built
  BY <1>4, PatchedFields DEF new, PatchTyped
<1> QED BY <1>6, <1>8, <1>9, Zenon

\* The row is what the form says, with this secret where none was said.
Written(new, d, secret) ==
    /\ new.address = d.address /\ new.scheme = d.scheme
    /\ new.header = IF d.scheme = "header" THEN d.header ELSE Null
    /\ new.secret = IF d.clear THEN Null ELSE IF d.typed # "" THEN d.typed ELSE secret
    /\ new.max = d.max /\ new.options = OptionsOf(d) /\ new.locality = d.locality
    /\ new.enabled = d.enabled
    /\ new.node = IF d.isNode THEN NormalizeNode(NodeOf(d)) ELSE Null

(* What the form sends fits the row, and what the row is afterwards.       *)
LEMMA InputTyped ==
  ASSUME NEW d \in ProviderDrafts, NEW mode, NEW c, ~ProviderRefused(c, ToInput(d, mode)),
         ~ProviderProblems(d), DOMAIN c = RowFields, c.header \in {Null, "h", "x", "y"},
         c.secret \in {Null, "k1", "k2", "k3"}, mode # "edit" => c.node = Null
  PROVE  /\ PatchTyped(c, ToInput(d, mode))
         /\ Written(UpdateProvider(c, ToInput(d, mode)), d, c.secret)
<1> DEFINE patch == ToInput(d, mode)
           new == UpdateProvider(c, patch)
<1>1. /\ d.address \in {"", "a", "b"} /\ d.scheme \in {"bearer", "header", "none"}
      /\ d.header \in {"", "h", "x", "y"} /\ d.typed \in {"", "k2"} /\ d.clear \in BOOLEAN
      /\ d.max \in {Null, 0, 1, 2, 3} /\ d.enabled \in BOOLEAN /\ d.locality \in {"local", "cloud"}
      /\ d.isNode \in BOOLEAN
      /\ OptionsOf(d) \in [usage : {"unset", "yes", "no"}, rest : {Null, "r"}]
      /\ NodeOf(d) \in NodeDrafts
  BY DEF ProviderDrafts, OptionsOf, NodeOf, NodeDrafts
<1>2. d.address \in {"a", "b"} /\ (d.scheme = "header" => d.header # "")
  BY <1>1 DEF ProviderProblems
<1>3. d.header # Null /\ NodeOf(d) # Null /\ d.typed # Null
  BY <1>1, NullIsNoField
<1>4. /\ DOMAIN patch \subseteq RowFields
      /\ \A f \in {"address", "scheme", "max", "locality", "enabled"} :
            f \in DOMAIN patch /\ patch[f] = d[f]
      /\ "options" \in DOMAIN patch /\ patch["options"] = OptionsOf(d)
      /\ d.scheme = "header" => "header" \in DOMAIN patch /\ patch["header"] = d.header
      /\ "header" \in DOMAIN patch => patch["header"] = IF d.scheme = "header" THEN d.header ELSE Null
      /\ d.isNode => "node" \in DOMAIN patch /\ patch["node"] = NodeOf(d)
      /\ ~d.isNode /\ mode = "edit" => "node" \in DOMAIN patch /\ patch["node"] = Null
      /\ ~d.isNode /\ mode # "edit" => "node" \notin DOMAIN patch
      /\ d.clear => "secret" \in DOMAIN patch /\ patch["secret"] = Null
      /\ ~d.clear /\ d.typed # "" => "secret" \in DOMAIN patch /\ patch["secret"] = d.typed
      /\ ~d.clear /\ d.typed = "" => "secret" \notin DOMAIN patch
  <2>1. Sends(d, mode, patch)
    BY InputFields
  <2> HIDE DEF patch
  <2> QED BY <1>3, <2>1 DEF Sends
<1> HIDE DEF patch
<1>5. /\ Given(patch, "address", c.address) = d.address /\ Given(patch, "scheme", c.scheme) = d.scheme
      /\ Given(patch, "max", c.max) = d.max /\ Given(patch, "locality", c.locality) = d.locality
      /\ Given(patch, "enabled", c.enabled) = d.enabled
      /\ Given(patch, "options", c.options) = OptionsOf(d)
  BY <1>4 DEF Given
<1>6. Given(patch, "header", c.header) = IF "header" \in DOMAIN patch
                                         THEN IF d.scheme = "header" THEN d.header ELSE Null
                                         ELSE c.header
  BY <1>4 DEF Given
<1>7. Given(patch, "secret", c.secret) = IF d.clear THEN Null
                                         ELSE IF d.typed # "" THEN d.typed ELSE c.secret
  BY <1>1, <1>4 DEF Given
<1>8. Given(patch, "node", c.node) = IF d.isNode THEN NodeOf(d) ELSE Null
  BY <1>1, <1>4 DEF Given
<1>9. d.max # 0
  <2>1. ~OutOfRange(Given(patch, "max", Null))
    BY DEF patch, ProviderRefused
  <2> QED BY <1>4, <2>1 DEF Given, OutOfRange
<1>10. PatchTyped(c, patch)
  BY <1>1, <1>2, <1>4, <1>5, <1>6, <1>7, <1>8, <1>9 DEF PatchTyped
<1>11. new = Patched(c, patch)
  BY <1>4, PatchedFields DEF new
<1>12. SchemeNeedsHeader(c, patch) <=> d.scheme = "header"
  BY <1>4, <1>5 DEF SchemeNeedsHeader
<1>13. {"scheme", "header"} \cap DOMAIN patch # {}
  BY <1>4
<1> HIDE DEF new
<1>14. new.header = IF d.scheme = "header" THEN d.header ELSE Null
  BY <1>4, <1>6, <1>11, <1>12, <1>13 DEF Patched
<1>15. new.secret = IF d.clear THEN Null ELSE IF d.typed # "" THEN d.typed ELSE c.secret
  BY <1>1, <1>7, <1>11, NullIsNoField DEF Patched
<1>16. new.node = IF d.isNode THEN NormalizeNode(NodeOf(d)) ELSE Null
  BY <1>8, <1>11 DEF Patched, NormalizeNode
<1>17. /\ new.address = d.address /\ new.scheme = d.scheme /\ new.max = d.max
       /\ new.options = OptionsOf(d) /\ new.locality = d.locality /\ new.enabled = d.enabled
  BY <1>5, <1>11 DEF Patched
<1> QED BY <1>10, <1>14, <1>15, <1>16, <1>17 DEF new, patch, Written

(* A draft that was not edited yet, in one piece.                          *)
DraftOf(address, scheme, header, max, enabled, stream, rest, locality, node) ==
    [address |-> address, scheme |-> scheme, header |-> header, typed |-> "", clear |-> FALSE,
     max |-> max, enabled |-> enabled, stream |-> stream, rest |-> rest, locality |-> locality,
     isNode |-> node # Null, wake |-> IF node = Null THEN 3 ELSE node.wake,
     idle |-> IF node = Null THEN Null ELSE node.idle,
     control |-> IF node = Null THEN "" ELSE node.control,
     shutdown |-> IF node = Null THEN "" ELSE node.shutdown]

(* The view shows the row but for its secret.                              *)
LEMMA ViewFields ==
  ASSUME NEW p, DOMAIN p = RowFields
  PROVE  \A f \in RowFields \ {"secret"} : ProviderView(p)[f] = p[f]
<1> DEFINE has == [hasKey |-> p.secret # Null]
           rest == Without(p, {"secret"})
<1>1. DOMAIN has = {"hasKey"}
  OBVIOUS
<1>2. DOMAIN rest = RowFields \ {"secret"} /\ \A f \in RowFields \ {"secret"} : rest[f] = p[f]
  BY DEF Without
<1> HIDE DEF has, rest
<1>3. ProviderView(p) = Over(has, rest)
  BY DEF ProviderView, has, rest
<1> QED BY <1>1, <1>2, <1>3 DEF Over, RowFields

BlankWith(a, sc, h, n, e, st, r, l) ==
    [address |-> a, scheme |-> sc, header |-> h, typed |-> "", clear |-> FALSE,
     max |-> n, enabled |-> e, stream |-> st, rest |-> r, locality |-> l,
     isNode |-> FALSE, wake |-> 3, idle |-> Null, control |-> "", shutdown |-> ""]

\* Eight fields of the blank form filled in, as the source writes it and in full.
Filled(a, sc, h, n, e, st, r, l) ==
    [BlankDraft EXCEPT !.address = a, !.scheme = sc, !.header = h, !.max = n, !.enabled = e,
                       !.locality = l, !.stream = st, !.rest = r]

DraftNames == {"address", "scheme", "header", "typed", "clear", "max", "enabled", "stream", "rest",
               "locality", "isNode", "wake", "idle", "control", "shutdown"}

(* The blank form with eight fields filled in.                             *)
LEMMA FilledIn ==
  ASSUME NEW a, NEW sc, NEW h, NEW n, NEW e, NEW st, NEW r, NEW l
  PROVE  Filled(a, sc, h, n, e, st, r, l) = BlankWith(a, sc, h, n, e, st, r, l)
<1> DEFINE b == BlankDraft
           g == [f \in DraftNames |-> IF f = "address" THEN a ELSE IF f = "scheme" THEN sc
                   ELSE IF f = "header" THEN h ELSE IF f = "max" THEN n
                   ELSE IF f = "enabled" THEN e ELSE IF f = "locality" THEN l
                   ELSE IF f = "stream" THEN st ELSE IF f = "rest" THEN r ELSE b[f]]
<1>1. /\ b = [f \in DraftNames |-> b[f]]
      /\ b["typed"] = "" /\ b["clear"] = FALSE /\ b["isNode"] = FALSE /\ b["wake"] = 3
      /\ b["idle"] = Null /\ b["control"] = "" /\ b["shutdown"] = ""
  BY DEF BlankDraft, DraftNames
<1> HIDE DEF b
<1>2. [b EXCEPT !.address = a, !.scheme = sc, !.header = h, !.max = n, !.enabled = e,
                !.locality = l, !.stream = st, !.rest = r] = g
  BY <1>1 DEF DraftNames
<1>3. g = [address |-> a, scheme |-> sc, header |-> h, typed |-> "", clear |-> FALSE,
           max |-> n, enabled |-> e, stream |-> st, rest |-> r, locality |-> l,
           isNode |-> FALSE, wake |-> 3, idle |-> Null, control |-> "", shutdown |-> ""]
  <2>1. /\ g = [f \in DraftNames |-> g[f]]
        /\ g["address"] = a /\ g["scheme"] = sc /\ g["header"] = h /\ g["max"] = n
        /\ g["enabled"] = e /\ g["locality"] = l /\ g["stream"] = st /\ g["rest"] = r
        /\ g["typed"] = "" /\ g["clear"] = FALSE /\ g["isNode"] = FALSE /\ g["wake"] = 3
        /\ g["idle"] = Null /\ g["control"] = "" /\ g["shutdown"] = ""
    BY <1>1 DEF DraftNames
  <2> HIDE DEF g
  <2> QED BY <2>1 DEF DraftNames
<1> HIDE DEF g
<1> QED BY <1>2, <1>3, Zenon DEF b, Filled, BlankWith

(* A filled form of a provider with or without a machine.                  *)
LEMMA FilledDraft ==
  ASSUME NEW a, NEW sc, NEW h, NEW n, NEW e, NEW st, NEW r, NEW l, NEW node
  PROVE  ApplyNode(Filled(a, sc, h, n, e, st, r, l), node) = DraftOf(a, sc, h, n, e, st, r, l, node)
<1> DEFINE b == BlankWith(a, sc, h, n, e, st, r, l)
<1>1. ApplyNode(b, node) = DraftOf(a, sc, h, n, e, st, r, l, node)
  <2>1. CASE node # Null
    BY <2>1 DEF ApplyNode, DraftOf, BlankWith
  <2>2. CASE node = Null
    BY <2>2 DEF ApplyNode, DraftOf, BlankWith
  <2> QED BY <2>1, <2>2
<1> QED BY <1>1, FilledIn, Zenon

(* The form of a row, in one piece.                                        *)
LEMMA DraftFromRow ==
  ASSUME NEW p, DOMAIN p = RowFields
  PROVE  DraftFromProvider(ProviderView(p)) =
           DraftOf(p.address, p.scheme, Or(p.header, ""), p.max, p.enabled,
                   p.options.usage # "no", p.options.rest, p.locality, p.node)
<1> DEFINE v == ProviderView(p)
<1>1. /\ v.address = p.address /\ v.scheme = p.scheme /\ v.header = p.header /\ v.max = p.max
      /\ v.enabled = p.enabled /\ v.options = p.options /\ v.locality = p.locality /\ v.node = p.node
  BY ViewFields DEF RowFields
<1> HIDE DEF v
<1>2. DraftFromProvider(v) =
        ApplyNode(Filled(v.address, v.scheme, Or(v.header, ""), v.max, v.enabled,
                         v.options.usage # "no", v.options.rest, v.locality), v.node)
  BY Zenon DEF DraftFromProvider, Filled
<1> DEFINE on == v.options.usage # "no"
<1>3. on = (p.options.usage # "no") /\ v.options.rest = p.options.rest
  BY <1>1
<1> HIDE DEF on
<1>4. DraftFromProvider(v) =
        DraftOf(v.address, v.scheme, Or(v.header, ""), v.max, v.enabled, on, v.options.rest,
                v.locality, v.node)
  <2>1. DraftFromProvider(v) =
          ApplyNode(Filled(v.address, v.scheme, Or(v.header, ""), v.max, v.enabled, on,
                           v.options.rest, v.locality), v.node)
    BY <1>2, Zenon DEF on
  <2>2. ApplyNode(Filled(v.address, v.scheme, Or(v.header, ""), v.max, v.enabled, on,
                         v.options.rest, v.locality), v.node)
          = DraftOf(v.address, v.scheme, Or(v.header, ""), v.max, v.enabled, on, v.options.rest,
                    v.locality, v.node)
    <3> DEFINE hh == Or(v.header, "")
               oo == v.options.rest
    <3> HIDE DEF hh, oo
    <3>1. \A st \in BOOLEAN :
            ApplyNode(Filled(v.address, v.scheme, hh, v.max, v.enabled, st, oo, v.locality), v.node)
              = DraftOf(v.address, v.scheme, hh, v.max, v.enabled, st, oo, v.locality, v.node)
      BY FilledDraft
    <3> QED BY <3>1 DEF hh, oo, on
  <2> QED BY <2>1, <2>2, Zenon
<1>5. DraftFromProvider(v) =
        DraftOf(p.address, p.scheme, Or(p.header, ""), p.max, p.enabled, on, p.options.rest,
                p.locality, p.node)
  BY <1>1, <1>3, <1>4, Zenon
<1> HIDE DEF v
<1> QED BY <1>3, <1>5, Zenon DEF v

(* A draft that shows these settings, and nothing typed.                   *)
Shows(d, a, sc, h, n, e, st, r, l, node) ==
    /\ d \in ProviderDrafts
    /\ d.address = a /\ d.scheme = sc /\ d.header = h /\ d.typed = "" /\ d.clear = FALSE
    /\ d.max = n /\ d.enabled = e /\ d.stream = st /\ d.rest = r /\ d.locality = l
    /\ d.isNode = (node # Null)
    /\ node # Null => d.wake = node.wake /\ d.idle = node.idle /\ d.control = node.control
                      /\ d.shutdown = node.shutdown

\* Settings the form can show.
Showable(a, sc, h, n, e, st, r, l, node) ==
    /\ a \in {"", "a", "b"} /\ sc \in {"bearer", "header", "none"} /\ h \in {"", "h", "x", "y"}
    /\ n \in {Null, 0, 1, 2, 3} /\ e \in BOOLEAN /\ st \in BOOLEAN /\ r \in {Null, "r"}
    /\ l \in {"local", "cloud"} /\ node \in NodeRecords \cup {Null}

(* Such a draft is of the kind the dialog holds.                           *)
LEMMA DraftFields ==
  ASSUME NEW a, NEW sc, NEW h, NEW n, NEW e, NEW st, NEW r, NEW l, NEW node,
         Showable(a, sc, h, n, e, st, r, l, node)
  PROVE  Shows(DraftOf(a, sc, h, n, e, st, r, l, node), a, sc, h, n, e, st, r, l, node)
<1> DEFINE d == DraftOf(a, sc, h, n, e, st, r, l, node)
           is == node # Null
           wake == IF node = Null THEN 3 ELSE node.wake
           idle == IF node = Null THEN Null ELSE node.idle
           control == IF node = Null THEN "" ELSE node.control
           shutdown == IF node = Null THEN "" ELSE node.shutdown
           built == [address |-> a, scheme |-> sc, header |-> h, typed |-> "", clear |-> FALSE,
                     max |-> n, enabled |-> e, stream |-> st, rest |-> r, locality |-> l,
                     isNode |-> is, wake |-> wake, idle |-> idle, control |-> control,
                     shutdown |-> shutdown]
<1>1. /\ wake \in {Null, 1, 2, 3} /\ idle \in {Null, 1} /\ control \in {"", "u"}
      /\ shutdown \in {"", "u", "w"} /\ is \in BOOLEAN
  <2>1. Null \notin NodeRecords
    <3>1. NodeRecords \subseteq NodeDrafts
      BY DEF NodeRecords, NodeDrafts
    <3> QED BY <3>1, NullIsNoField
  <2>2. node \in NodeRecords \cup {Null}
    BY Zenon DEF Showable
  <2> QED BY <2>1, <2>2 DEF NodeRecords
<1>2. node # Null => wake = node.wake /\ idle = node.idle /\ control = node.control
                     /\ shutdown = node.shutdown
  OBVIOUS
<1>3. is = (node # Null)
  OBVIOUS
<1>4. d = built
  BY Zenon DEF DraftOf
<1> HIDE DEF d, is, wake, idle, control, shutdown
<1>5. built \in ProviderDrafts
  <2> DEFINE A == {"", "a", "b"}
             S == {"bearer", "header", "none"}
             H == {"", "h", "x", "y"}
             T == {"", "k2"}
             N == {Null, 0, 1, 2, 3}
             R == {Null, "r"}
             L == {"local", "cloud"}
             W == {Null, 1, 2, 3}
             I == {Null, 1}
             C == {"", "u"}
             D == {"", "u", "w"}
             B == BOOLEAN
  <2>1. /\ a \in A /\ sc \in S /\ h \in H /\ "" \in T /\ FALSE \in B /\ n \in N /\ e \in B /\ st \in B
        /\ r \in R /\ l \in L /\ is \in B /\ wake \in W /\ idle \in I /\ control \in C
        /\ shutdown \in D
    BY <1>1 DEF Showable
  <2>2. ProviderDrafts =
          [address : A, scheme : S, header : H, typed : T, clear : B, max : N, enabled : B,
           stream : B, rest : R, locality : L, isNode : B, wake : W, idle : I, control : C,
           shutdown : D]
    BY DEF ProviderDrafts
  <2> HIDE DEF A, S, H, T, N, R, L, W, I, C, D, B
  <2> QED BY <2>1, <2>2
<1>6. /\ built.address = a /\ built.scheme = sc /\ built.header = h /\ built.typed = ""
      /\ built.clear = FALSE /\ built.max = n /\ built.enabled = e /\ built.stream = st
      /\ built.rest = r /\ built.locality = l /\ built.isNode = is /\ built.wake = wake
      /\ built.idle = idle /\ built.control = control /\ built.shutdown = shutdown
  OBVIOUS
<1> HIDE DEF built
<1>7. /\ d \in ProviderDrafts
      /\ d.address = a /\ d.scheme = sc /\ d.header = h /\ d.typed = "" /\ d.clear = FALSE
      /\ d.max = n /\ d.enabled = e /\ d.stream = st /\ d.rest = r /\ d.locality = l
  BY <1>4, <1>5, <1>6, Zenon
<1>8. d.isNode = (node # Null)
  BY <1>3, <1>4, <1>6, Zenon
<1>9. node # Null => d.wake = node.wake /\ d.idle = node.idle /\ d.control = node.control
                     /\ d.shutdown = node.shutdown
  BY <1>2, <1>4, <1>6, Zenon
<1> QED BY <1>7, <1>8, <1>9, Zenon DEF d, Shows

(* The form after a save, in one piece.                                    *)
LEMMA SavedDraft ==
  ASSUME NEW d \in ProviderDrafts
  PROVE  OnceSaved(d) =
           DraftOf(d.address, d.scheme, IF d.scheme = "header" THEN d.header ELSE "", d.max,
                   d.enabled, d.stream, d.rest, d.locality,
                   IF d.isNode THEN NormalizeNode(NodeOf(d)) ELSE Null)
<1> DEFINE h == IF d.scheme = "header" THEN d.header ELSE ""
           n == IF d.isNode THEN NormalizeNode(NodeOf(d)) ELSE Null
<1>1. OnceSaved(d) =
        ApplyNode(Filled(d.address, d.scheme, h, d.max, d.enabled, d.stream, d.rest, d.locality), n)
  BY Zenon DEF OnceSaved, Filled
<1> HIDE DEF h, n
<1>2. ApplyNode(Filled(d.address, d.scheme, h, d.max, d.enabled, d.stream, d.rest, d.locality), n)
        = DraftOf(d.address, d.scheme, h, d.max, d.enabled, d.stream, d.rest, d.locality, n)
  BY FilledDraft
<1>3. OnceSaved(d) = DraftOf(d.address, d.scheme, h, d.max, d.enabled, d.stream, d.rest, d.locality, n)
  BY <1>1, <1>2, Zenon
<1> QED BY <1>3, Zenon DEF h, n

(* A row's fields.                                                         *)
LEMMA RowTyped ==
  ASSUME NEW p \in ProviderRecords
  PROVE  /\ DOMAIN p = RowFields
         /\ p.address \in {"a", "b"} /\ p.scheme \in {"bearer", "header", "none"}
         /\ p.header \in {Null, "h", "x", "y"} /\ p.secret \in {Null, "k1", "k2", "k3"}
         /\ p.max \in {Null, 1, 2, 3}
         /\ p.options \in [usage : {"unset", "yes", "no"}, rest : {Null, "r"}]
         /\ p.locality \in {"local", "cloud"} /\ p.enabled \in BOOLEAN
         /\ p.node \in NodeRecords \cup {Null}
  BY DEF ProviderRecords, RowFields

(* Stored settings of a machine pass the form unchanged.                   *)
LEMMA NodeOfRecord ==
  ASSUME NEW node \in NodeRecords, NEW d,
         d.wake = node.wake, d.idle = node.idle, d.control = node.control,
         d.shutdown = node.shutdown
  PROVE  NodeOf(d) = node /\ NormalizeNode(node) = node /\ node # Null
<1>1. NodeOf(d) = node
  BY DEF NodeOf, NodeRecords
<1>2. node \in NodeDrafts /\ node # Null
  BY NullIsNoField DEF NodeRecords, NodeDrafts
<1>3. Or(node.wake, 3) = node.wake
  <2>1. node.wake \in {1, 2, 3}
    BY DEF NodeRecords
  <2>2. node.wake # Null
    <3>1. Null \notin Nat
      BY NullIsNoField
    <3> QED BY <2>1, <3>1
  <2> QED BY <2>2 DEF Or
<1>4. NormalizeNode(node) = [node EXCEPT !.wake = node.wake]
  BY <1>2, <1>3 DEF NormalizeNode
<1> QED BY <1>1, <1>2, <1>4 DEF NodeRecords

(* The form of a row that is in order shows that row.                      *)
LEMMA FormOfRow ==
  ASSUME NEW p \in ProviderRecords, RowInOrder(p)
  PROVE  LET d == DraftFromProvider(ProviderView(p))
         IN  /\ d \in ProviderDrafts /\ ~ProviderProblems(d)
             /\ d.address = p.address /\ d.scheme = p.scheme /\ d.typed = "" /\ d.clear = FALSE
             /\ (IF d.scheme = "header" THEN d.header ELSE Null) = p.header
             /\ d.scheme = "header" => d.header \notin {Null, ""}
             /\ d.max = p.max /\ d.enabled = p.enabled /\ d.locality = p.locality
             /\ d.stream = (p.options.usage # "no") /\ d.rest = p.options.rest
             /\ d.isNode = (p.node # Null)
             /\ d.isNode => NodeOf(d) = p.node
             /\ NormalizeNode(p.node) = p.node
<1> DEFINE d == DraftFromProvider(ProviderView(p))
           h == Or(p.header, "")
           on == p.options.usage # "no"
           extra == p.options.rest
<1>1. /\ h \in {"", "h", "x", "y"} /\ on \in BOOLEAN /\ extra \in {Null, "r"}
      /\ (p.scheme = "header" => h = p.header /\ h \notin {Null, ""})
      /\ (p.scheme # "header" => p.header = Null)
  BY RowTyped, NullIsNoField DEF RowInOrder, Or
<1>2. d = DraftOf(p.address, p.scheme, h, p.max, p.enabled, on, extra, p.locality, p.node)
  BY RowTyped, DraftFromRow, Zenon
<1>3. on = (p.options.usage # "no") /\ extra = p.options.rest
  OBVIOUS
<1> HIDE DEF d, h, on, extra
<1>4. /\ d \in ProviderDrafts
      /\ d.address = p.address /\ d.scheme = p.scheme /\ d.header = h /\ d.typed = "" /\ d.clear = FALSE
      /\ d.max = p.max /\ d.enabled = p.enabled /\ d.stream = on /\ d.rest = extra
      /\ d.locality = p.locality /\ d.isNode = (p.node # Null)
      /\ p.node # Null => d.wake = p.node.wake /\ d.idle = p.node.idle /\ d.control = p.node.control
                          /\ d.shutdown = p.node.shutdown
  <2>1. /\ p.address \in {"", "a", "b"} /\ p.scheme \in {"bearer", "header", "none"}
        /\ p.max \in {Null, 0, 1, 2, 3} /\ p.enabled \in BOOLEAN
        /\ p.locality \in {"local", "cloud"} /\ p.node \in NodeRecords \cup {Null}
    BY RowTyped
  <2> DEFINE dd == DraftOf(p.address, p.scheme, h, p.max, p.enabled, on, extra, p.locality, p.node)
  <2>2. Shows(dd, p.address, p.scheme, h, p.max, p.enabled, on, extra, p.locality, p.node)
    <3>1. \A st \in BOOLEAN :
            Shows(DraftOf(p.address, p.scheme, h, p.max, p.enabled, st, extra, p.locality, p.node),
                  p.address, p.scheme, h, p.max, p.enabled, st, extra, p.locality, p.node)
      <4>1. \A st \in BOOLEAN :
              Showable(p.address, p.scheme, h, p.max, p.enabled, st, extra, p.locality, p.node)
        BY <1>1, <2>1 DEF Showable
      <4> QED BY <4>1, DraftFields
    <3> QED BY <1>1, <3>1
  <2>3. Shows(d, p.address, p.scheme, h, p.max, p.enabled, on, extra, p.locality, p.node)
    BY <1>2, <2>2, Zenon
  <2> QED BY <2>3, Zenon DEF Shows
<1>5. p.node # Null => NodeOf(d) = p.node /\ NormalizeNode(p.node) = p.node
  <2>1. p.node \in NodeRecords \cup {Null}
    BY RowTyped
  <2> QED BY <1>4, <2>1, NodeOfRecord
<1>6. NormalizeNode(p.node) = p.node
  BY <1>5 DEF NormalizeNode
<1>7. ~ProviderProblems(d)
  <2>1. d.address # ""
    BY <1>4, RowTyped
  <2>2. ~(d.scheme = "header" /\ d.header = "")
    BY <1>1, <1>4
  <2>3. ~(d.isNode /\ d.idle # Null /\ d.control = "" /\ d.shutdown = "")
    BY <1>4 DEF RowInOrder, NodeRefused
  <2> QED BY <2>1, <2>2, <2>3 DEF ProviderProblems
<1>8. (IF d.scheme = "header" THEN d.header ELSE Null) = p.header
      /\ (d.scheme = "header" => d.header \notin {Null, ""})
  BY <1>1, <1>4
<1> QED BY <1>3, <1>4, <1>5, <1>6, <1>7, <1>8 DEF d

(* Rows that differ in the spelling of one option mean the same.           *)
LEMMA SameMeaning ==
  ASSUME NEW p \in ProviderRecords, NEW q \in ProviderRecords,
         p.address = q.address, p.scheme = q.scheme, p.header = q.header, p.secret = q.secret,
         p.max = q.max, p.locality = q.locality, p.enabled = q.enabled, p.node = q.node,
         p.options.rest = q.options.rest, p.options.usage = "no" <=> q.options.usage = "no"
  PROVE  Meaning(p) = Meaning(q)
<1> DEFINE u == p.options.usage # "no"
           v == q.options.usage # "no"
           o == [p.options EXCEPT !.usage = u]
<1>1. u = v
  OBVIOUS
<1>2. Meaning(p) = [p EXCEPT !.options = o]
  BY DEF Meaning
<1>3. Meaning(q) = [q EXCEPT !.options = [q.options EXCEPT !.usage = v]]
  BY DEF Meaning
<1> HIDE DEF u, v
<1>4. [q.options EXCEPT !.usage = v] = o
  BY <1>1, RowTyped
<1> HIDE DEF o
<1>5. /\ DOMAIN p = RowFields /\ DOMAIN q = RowFields
      /\ p = [f \in RowFields |-> p[f]] /\ q = [f \in RowFields |-> q[f]]
      /\ \A f \in RowFields \ {"options"} : p[f] = q[f]
  BY DEF ProviderRecords, RowFields
<1>6. [p EXCEPT !.options = o] = [q EXCEPT !.options = o]
  BY <1>5
<1> QED BY <1>2, <1>3, <1>4, <1>6, Zenon

(* A row that is in order can be opened and saved as it is.                *)
LEMMA KeptInOrder ==
  ASSUME NEW p \in ProviderRecords, RowInOrder(p)
  PROVE  KeptAsItIs(p)
<1> DEFINE d == DraftFromProvider(ProviderView(p))
           input == ToInput(d, "edit")
           new == UpdateProvider(p, input)
<1>1. /\ d \in ProviderDrafts /\ ~ProviderProblems(d)
      /\ d.address = p.address /\ d.scheme = p.scheme /\ d.typed = "" /\ d.clear = FALSE
      /\ (IF d.scheme = "header" THEN d.header ELSE Null) = p.header
      /\ d.scheme = "header" => d.header \notin {Null, ""}
      /\ d.max = p.max /\ d.enabled = p.enabled /\ d.locality = p.locality
      /\ d.stream = (p.options.usage # "no") /\ d.rest = p.options.rest
      /\ d.isNode = (p.node # Null)
      /\ d.isNode => NodeOf(d) = p.node
      /\ NormalizeNode(p.node) = p.node
  BY FormOfRow
<1> HIDE DEF d
<1>2. Sends(d, "edit", input)
  BY InputFields
<1> HIDE DEF input
<1>3. ~ProviderRefused(p, input)
  <2>1. Given(input, "address", "a") # ""
    BY <1>1, <1>2, RowTyped DEF Sends, Given
  <2>2. ~(SchemeNeedsHeader(p, input) /\ Given(input, "header", p.header) \in {Null, ""})
    BY <1>1, <1>2 DEF Sends, Given, SchemeNeedsHeader
  <2>3. ~OutOfRange(Given(input, "max", Null))
    <3>1. Given(input, "max", Null) = p.max
      BY <1>1, <1>2 DEF Sends, Given
    <3>2. Null \notin Nat
      BY NullIsNoField
    <3> QED BY <3>1, <3>2, RowTyped DEF OutOfRange
  <2>4. ~NodeRefused(Given(input, "node", Null))
    <3>1. Given(input, "node", Null) = p.node
      BY <1>1, <1>2 DEF Sends, Given
    <3> QED BY <3>1 DEF RowInOrder
  <2> QED BY <2>1, <2>2, <2>3, <2>4 DEF ProviderRefused
<1>4. PatchTyped(p, input) /\ Written(new, d, p.secret)
  <2>1. /\ DOMAIN p = RowFields /\ p.header \in {Null, "h", "x", "y"}
        /\ p.secret \in {Null, "k1", "k2", "k3"}
    BY RowTyped
  <2> QED BY <1>1, <1>3, <2>1, InputTyped, Zenon DEF input
<1>5. new \in ProviderRecords
  BY <1>3, <1>4, PatchedInOrder
<1> HIDE DEF new
<1>6. new.options.rest = p.options.rest /\ (new.options.usage = "no" <=> p.options.usage = "no")
  <2>1. new.options = OptionsOf(d)
    BY <1>4 DEF Written
  <2>2. OptionsOf(d).rest = d.rest /\ (OptionsOf(d).usage = "no" <=> ~d.stream)
    BY <1>1 DEF OptionsOf
  <2> QED BY <1>1, <2>1, <2>2
<1>7. /\ new.header = p.header /\ new.secret = p.secret /\ new.node = p.node
  BY <1>1, <1>4 DEF Written
<1>8. Meaning(new) = Meaning(p)
  BY <1>1, <1>4, <1>5, <1>6, <1>7, SameMeaning DEF Written
<1> QED BY <1>3, <1>8 DEF KeptAsItIs, new, input, d

(* The blank row a new provider starts from.                               *)
LEMMA BlankRow ==
  /\ DOMAIN NewRow = RowFields /\ NewRow.header = Null /\ NewRow.secret = Null
  /\ NewRow.node = Null /\ RowInOrder(NewRow)
  BY DEF NewRow, RowFields, RowInOrder, NodeRefused

(* A saved form leaves a row that is in order and that it shows.           *)
LEMMA FormSaved ==
  ASSUME NEW d \in ProviderDrafts, ~ProviderProblems(d), NEW mode, NEW c,
         \/ mode = "create" /\ c = NewRow
         \/ mode = "edit" /\ c \in ProviderRecords /\ RowInOrder(c),
         ~ProviderRefused(c, ToInput(d, mode))
  PROVE  /\ UpdateProvider(c, ToInput(d, mode)) \in ProviderRecords
         /\ RowInOrder(UpdateProvider(c, ToInput(d, mode)))
         /\ DraftFromProvider(ProviderView(UpdateProvider(c, ToInput(d, mode)))) = OnceSaved(d)
         /\ d.typed = "" /\ ~d.clear => UpdateProvider(c, ToInput(d, mode)).secret = c.secret
<1> DEFINE new == UpdateProvider(c, ToInput(d, mode))
<1>1. /\ DOMAIN c = RowFields /\ c.header \in {Null, "h", "x", "y"}
      /\ c.secret \in {Null, "k1", "k2", "k3"} /\ RowInOrder(c) /\ (mode # "edit" => c.node = Null)
  BY BlankRow, RowTyped
<1>2. PatchTyped(c, ToInput(d, mode)) /\ Written(new, d, c.secret)
  BY <1>1, InputTyped, Zenon
<1>3. new \in ProviderRecords /\ RowInOrder(new)
  BY <1>1, <1>2, PatchedInOrder
<1> HIDE DEF new
<1>4. d.typed = "" /\ ~d.clear => new.secret = c.secret
  BY <1>2 DEF Written
<1>5. DraftFromProvider(ProviderView(new)) = OnceSaved(d)
  <2> DEFINE h == IF d.scheme = "header" THEN d.header ELSE ""
             n == IF d.isNode THEN NormalizeNode(NodeOf(d)) ELSE Null
             on == new.options.usage # "no"
  <2>1. OnceSaved(d) =
          DraftOf(d.address, d.scheme, h, d.max, d.enabled, d.stream, d.rest, d.locality, n)
    BY SavedDraft
  <2>2. DraftFromProvider(ProviderView(new)) =
          DraftOf(new.address, new.scheme, Or(new.header, ""), new.max, new.enabled, on,
                  new.options.rest, new.locality, new.node)
    BY <1>3, DraftFromRow, RowTyped, Zenon
  <2>3. Or(new.header, "") = h
    <3>1. d.header # Null
      BY NullIsNoField DEF ProviderDrafts
    <3> QED BY <1>2, <3>1 DEF Written, Or
  <2>4. on = d.stream /\ new.options.rest = d.rest
    <3>1. new.options = OptionsOf(d)
      BY <1>2 DEF Written
    <3>2. d.stream \in BOOLEAN
      BY DEF ProviderDrafts
    <3> QED BY <3>1, <3>2 DEF OptionsOf
  <2>5. /\ new.address = d.address /\ new.scheme = d.scheme /\ new.max = d.max
        /\ new.enabled = d.enabled /\ new.locality = d.locality /\ new.node = n
    BY <1>2 DEF Written
  <2> HIDE DEF h, n, on
  <2> QED BY <2>1, <2>2, <2>3, <2>4, <2>5, Zenon
<1> QED BY <1>3, <1>4, <1>5 DEF new

\* What may be said of one field.
FieldTyped(patch, f, S) == f \in DOMAIN patch => patch[f] \in S

(* A field of a patch or of the row.                                       *)
LEMMA FieldGiven ==
  ASSUME NEW S, NEW patch, NEW f, NEW v \in S, FieldTyped(patch, f, S)
  PROVE  Given(patch, f, v) \in S
  BY DEF Given, FieldTyped

(* A patch whose fields are of the row's kind.                             *)
LEMMA FieldsTyped ==
  ASSUME NEW p \in ProviderRecords, NEW patch, DOMAIN patch \subseteq RowFields,
         FieldTyped(patch, "address", {"a", "b"}),
         FieldTyped(patch, "scheme", {"bearer", "header", "none"}),
         FieldTyped(patch, "header", {Null, "", "h", "x", "y"}),
         FieldTyped(patch, "secret", {Null, "", "k1", "k2", "k3"}),
         FieldTyped(patch, "max", {Null, 1, 2, 3}),
         FieldTyped(patch, "options", [usage : {"unset", "yes", "no"}, rest : {Null, "r"}]),
         FieldTyped(patch, "locality", {"local", "cloud"}),
         FieldTyped(patch, "enabled", BOOLEAN),
         FieldTyped(patch, "node", NodeDrafts \cup {Null})
  PROVE  PatchTyped(p, patch)
<1>1. DOMAIN p = RowFields /\ p.header \in {Null, "h", "x", "y"}
  BY RowTyped
<1>2. Given(patch, "address", p.address) \in {"a", "b"}
  <2>1. p.address \in {"a", "b"}
    BY RowTyped
  <2> QED BY <2>1, FieldGiven
<1>3. Given(patch, "scheme", p.scheme) \in {"bearer", "header", "none"}
  <2>1. p.scheme \in {"bearer", "header", "none"}
    BY RowTyped
  <2> QED BY <2>1, FieldGiven
<1>4. Given(patch, "header", p.header) \in {Null, "", "h", "x", "y"}
  <2>1. p.header \in {Null, "", "h", "x", "y"}
    BY RowTyped
  <2> QED BY <2>1, FieldGiven
<1>5. Given(patch, "secret", p.secret) \in {Null, "", "k1", "k2", "k3"}
  <2>1. p.secret \in {Null, "", "k1", "k2", "k3"}
    BY RowTyped
  <2> QED BY <2>1, FieldGiven
<1>6. Given(patch, "max", p.max) \in {Null, 1, 2, 3}
  <2>1. p.max \in {Null, 1, 2, 3}
    BY RowTyped
  <2> QED BY <2>1, FieldGiven
<1>7. Given(patch, "options", p.options) \in [usage : {"unset", "yes", "no"}, rest : {Null, "r"}]
  <2>1. p.options \in [usage : {"unset", "yes", "no"}, rest : {Null, "r"}]
    BY RowTyped
  <2> QED BY <2>1, FieldGiven
<1>8. Given(patch, "locality", p.locality) \in {"local", "cloud"}
  <2>1. p.locality \in {"local", "cloud"}
    BY RowTyped
  <2> QED BY <2>1, FieldGiven
<1>9. Given(patch, "enabled", p.enabled) \in BOOLEAN
  <2>1. p.enabled \in BOOLEAN
    BY RowTyped
  <2> QED BY <2>1, FieldGiven
<1>10. Given(patch, "node", p.node) \in NodeDrafts \cup {Null}
  <2>1. NodeRecords \subseteq NodeDrafts
    BY DEF NodeRecords, NodeDrafts
  <2>2. p.node \in NodeDrafts \cup {Null}
    BY <2>1, RowTyped
  <2> QED BY <2>2, FieldGiven
<1> QED BY <1>1, <1>2, <1>3, <1>4, <1>5, <1>6, <1>7, <1>8, <1>9, <1>10, Zenon DEF PatchTyped

(* What others send fits the row too.                                      *)
LEMMA OthersTyped ==
  ASSUME NEW p \in ProviderRecords, NEW patch \in ProviderPatches
  PROVE  PatchTyped(p, patch)
<1> DEFINE P1 == [enabled : {FALSE}]
           P2 == [scheme : {"header", "none"}]
           P3 == [header : {Null, "y"}]
           P4 == [scheme : {"header"}, header : {"y"}]
           P5 == [secret : {Null, "", "k3"}]
           P6 == [max : {3}]
           n1 == [wake |-> Null, idle |-> 1, control |-> "", shutdown |-> "w"]
           n2 == [wake |-> 2, idle |-> 1, control |-> "", shutdown |-> ""]
           P7 == [node : {Null, n1, n2}]
<1>2. ProviderPatches = P1 \cup P2 \cup P3 \cup P4 \cup P5 \cup P6 \cup P7
  BY Zenon DEF ProviderPatches
<1>3. CASE patch \in P1
  <2>1. DOMAIN patch = {"enabled"} /\ patch["enabled"] = FALSE
    BY <1>3
  <2> HIDE DEF P1, P2, P3, P4, P5, P6, P7
  <2> QED BY <2>1, FieldsTyped DEF FieldTyped, RowFields
<1>4. CASE patch \in P2
  <2>1. DOMAIN patch = {"scheme"} /\ patch["scheme"] \in {"header", "none"}
    BY <1>4
  <2> HIDE DEF P1, P2, P3, P4, P5, P6, P7
  <2> QED BY <2>1, FieldsTyped DEF FieldTyped, RowFields
<1>5. CASE patch \in P3
  <2>1. DOMAIN patch = {"header"} /\ patch["header"] \in {Null, "y"}
    BY <1>5
  <2> HIDE DEF P1, P2, P3, P4, P5, P6, P7
  <2> QED BY <2>1, FieldsTyped DEF FieldTyped, RowFields
<1>6. CASE patch \in P4
  <2>1. DOMAIN patch = {"header", "scheme"} /\ patch["header"] = "y" /\ patch["scheme"] = "header"
    BY <1>6
  <2> HIDE DEF P1, P2, P3, P4, P5, P6, P7
  <2> QED BY <2>1, FieldsTyped DEF FieldTyped, RowFields
<1>7. CASE patch \in P5
  <2>1. DOMAIN patch = {"secret"} /\ patch["secret"] \in {Null, "", "k3"}
    BY <1>7
  <2> HIDE DEF P1, P2, P3, P4, P5, P6, P7
  <2> QED BY <2>1, FieldsTyped DEF FieldTyped, RowFields
<1>8. CASE patch \in P6
  <2>1. DOMAIN patch = {"max"} /\ patch["max"] = 3
    BY <1>8
  <2> HIDE DEF P1, P2, P3, P4, P5, P6, P7
  <2> QED BY <2>1, FieldsTyped DEF FieldTyped, RowFields
<1>9. CASE patch \in P7
  <2>1. n1 \in NodeDrafts /\ n2 \in NodeDrafts
    BY DEF NodeDrafts
  <2>2. DOMAIN patch = {"node"} /\ patch["node"] \in {Null, n1, n2}
    BY <1>9
  <2> HIDE DEF n1, n2
  <2> QED BY <2>1, <2>2, FieldsTyped DEF FieldTyped, RowFields
<1> HIDE DEF P1, P2, P3, P4, P5, P6, P7
<1> QED BY <1>2, <1>3, <1>4, <1>5, <1>6, <1>7, <1>8, <1>9

(* The tables of providers the hub may start with.                         *)
LEMMA InitialRowsInOrder == \A p \in InitialRows \cup {BaseRow} : p \in ProviderRecords /\ RowInOrder(p)
<1> DEFINE b == BaseRow
           S1 == {[b EXCEPT !.options.usage = usage] : usage \in {"yes", "no"}}
           r1 == [b EXCEPT !.scheme = "header", !.header = "h"]
           r2 == [b EXCEPT !.scheme = "none"]
           S2 == {[b EXCEPT !.secret = "k1", !.node = node] : node \in Nodes}
<1>1. InitialRows = S1 \cup {r1, r2} \cup S2
  BY Zenon DEF InitialRows
<1>2. /\ b \in ProviderRecords /\ b.header = Null /\ b.scheme = "bearer" /\ b.node = Null
      /\ b.options \in [usage : {"unset", "yes", "no"}, rest : {Null, "r"}]
  BY DEF BaseRow, NewRow, ProviderRecords
<1> HIDE DEF b
<1>3. ASSUME NEW p \in S1 PROVE p \in ProviderRecords /\ RowInOrder(p)
  <2>1. PICK usage \in {"yes", "no"} : p = [b EXCEPT !.options.usage = usage]
    BY <1>3
  <2> DEFINE o == [b.options EXCEPT !.usage = usage]
  <2>2. o \in [usage : {"unset", "yes", "no"}, rest : {Null, "r"}]
    BY <1>2
  <2>3. p = [b EXCEPT !.options = o]
    BY <2>1
  <2> HIDE DEF o
  <2>4. p \in ProviderRecords /\ p.header = Null /\ p.scheme = "bearer" /\ p.node = Null
    BY <1>2, <2>2, <2>3 DEF ProviderRecords
  <2> QED BY <2>4 DEF RowInOrder, NodeRefused
<1>4. r1 \in ProviderRecords /\ RowInOrder(r1)
  <2>1. r1 \in ProviderRecords /\ r1.header = "h" /\ r1.scheme = "header" /\ r1.node = Null
    BY <1>2 DEF ProviderRecords
  <2>2. "h" # Null
    BY NullIsNoField
  <2> HIDE DEF r1
  <2> QED BY <2>1, <2>2 DEF RowInOrder, NodeRefused
<1>5. r2 \in ProviderRecords /\ RowInOrder(r2)
  <2>1. r2 \in ProviderRecords /\ r2.header = Null /\ r2.scheme = "none" /\ r2.node = Null
    BY <1>2 DEF ProviderRecords
  <2> HIDE DEF r2
  <2> QED BY <2>1 DEF RowInOrder, NodeRefused
<1>6. ASSUME NEW p \in S2 PROVE p \in ProviderRecords /\ RowInOrder(p)
  <2>1. PICK node \in Nodes : p = [b EXCEPT !.secret = "k1", !.node = node]
    BY <1>6
  <2>2. node \in NodeRecords \cup {Null} /\ ~NodeRefused(node)
    <3>1. CASE node = Null
      BY <3>1 DEF NodeRefused
    <3>2. CASE node # Null
      BY <3>2 DEF Nodes, NodeRecords, NodeRefused
    <3> QED BY <3>1, <3>2
  <2>3. p \in ProviderRecords /\ p.header = Null /\ p.scheme = "bearer" /\ p.node = node
    BY <1>2, <2>1, <2>2 DEF ProviderRecords
  <2> QED BY <2>2, <2>3 DEF RowInOrder
<1>7. b \in ProviderRecords /\ RowInOrder(b)
  BY <1>2 DEF RowInOrder, NodeRefused
<1> HIDE DEF S1, r1, r2, S2
<1> QED BY <1>1, <1>3, <1>4, <1>5, <1>6, <1>7 DEF b

(* One field of the provider's form at a time.                             *)
LEMMA DraftEdited ==
  ASSUME NEW d \in ProviderDrafts, NEW f \in DOMAIN ProviderValues, NEW v \in ProviderValues[f]
  PROVE  [d EXCEPT ![f] = v] \in ProviderDrafts
<1> DEFINE A == {"", "a", "b"}
           S == {"bearer", "header", "none"}
           H == {"", "h", "x", "y"}
           T == {"", "k2"}
           N == {Null, 0, 1, 2, 3}
           R == {Null, "r"}
           L == {"local", "cloud"}
           W == {Null, 1, 2, 3}
           I == {Null, 1}
           C == {"", "u"}
           D == {"", "u", "w"}
           B == BOOLEAN
<1>1. ProviderDrafts =
        [address : A, scheme : S, header : H, typed : T, clear : B, max : N, enabled : B,
         stream : B, rest : R, locality : L, isNode : B, wake : W, idle : I, control : C,
         shutdown : D]
  BY DEF ProviderDrafts
<1>2. f \in DraftNames \ {"rest"}
  BY DEF ProviderValues, DraftNames
<1> USE DEF ProviderValues
<1>3. CASE f = "address"
  <2>1. v \in A
    BY <1>3
  <2> HIDE DEF A, S, H, T, N, R, L, W, I, C, D, B
  <2> QED BY <1>1, <1>3, <2>1
<1>4. CASE f = "scheme"
  <2>1. v \in S
    BY <1>4
  <2> HIDE DEF A, S, H, T, N, R, L, W, I, C, D, B
  <2> QED BY <1>1, <1>4, <2>1
<1>5. CASE f = "header"
  <2>1. v \in H
    BY <1>5
  <2> HIDE DEF A, S, H, T, N, R, L, W, I, C, D, B
  <2> QED BY <1>1, <1>5, <2>1
<1>6. CASE f = "typed"
  <2>1. v \in T
    BY <1>6
  <2> HIDE DEF A, S, H, T, N, R, L, W, I, C, D, B
  <2> QED BY <1>1, <1>6, <2>1
<1>7. CASE f = "clear"
  <2>1. v \in B
    BY <1>7
  <2> HIDE DEF A, S, H, T, N, R, L, W, I, C, D, B
  <2> QED BY <1>1, <1>7, <2>1
<1>8. CASE f = "max"
  <2>1. v \in N
    BY <1>8
  <2> HIDE DEF A, S, H, T, N, R, L, W, I, C, D, B
  <2> QED BY <1>1, <1>8, <2>1
<1>9. CASE f = "enabled"
  <2>1. v \in B
    BY <1>9
  <2> HIDE DEF A, S, H, T, N, R, L, W, I, C, D, B
  <2> QED BY <1>1, <1>9, <2>1
<1>10. CASE f = "stream"
  <2>1. v \in B
    BY <1>10
  <2> HIDE DEF A, S, H, T, N, R, L, W, I, C, D, B
  <2> QED BY <1>1, <1>10, <2>1
<1>11. CASE f = "locality"
  <2>1. v \in L
    BY <1>11
  <2> HIDE DEF A, S, H, T, N, R, L, W, I, C, D, B
  <2> QED BY <1>1, <1>11, <2>1
<1>12. CASE f = "isNode"
  <2>1. v \in B
    BY <1>12
  <2> HIDE DEF A, S, H, T, N, R, L, W, I, C, D, B
  <2> QED BY <1>1, <1>12, <2>1
<1>13. CASE f = "wake"
  <2>1. v \in W
    BY <1>13
  <2> HIDE DEF A, S, H, T, N, R, L, W, I, C, D, B
  <2> QED BY <1>1, <1>13, <2>1
<1>14. CASE f = "idle"
  <2>1. v \in I
    BY <1>14
  <2> HIDE DEF A, S, H, T, N, R, L, W, I, C, D, B
  <2> QED BY <1>1, <1>14, <2>1
<1>15. CASE f = "control"
  <2>1. v \in C
    BY <1>15
  <2> HIDE DEF A, S, H, T, N, R, L, W, I, C, D, B
  <2> QED BY <1>1, <1>15, <2>1
<1>16. CASE f = "shutdown"
  <2>1. v \in D
    BY <1>16
  <2> HIDE DEF A, S, H, T, N, R, L, W, I, C, D, B
  <2> QED BY <1>1, <1>16, <2>1
<1> QED BY <1>2, <1>3, <1>4, <1>5, <1>6, <1>7, <1>8, <1>9, <1>10, <1>11, <1>12,
          <1>13, <1>14, <1>15, <1>16 DEF DraftNames

(* The forms a new provider starts from.                                   *)
LEMMA PresetDrafts ==
  \A d \in {BlankDraft, DraftFromPreset} : d \in ProviderDrafts /\ d.typed = "" /\ ~d.clear
<1> DEFINE A == {"", "a", "b"}
           S == {"bearer", "header", "none"}
           H == {"", "h", "x", "y"}
           T == {"", "k2"}
           N == {Null, 0, 1, 2, 3}
           R == {Null, "r"}
           L == {"local", "cloud"}
           W == {Null, 1, 2, 3}
           I == {Null, 1}
           C == {"", "u"}
           D == {"", "u", "w"}
           B == BOOLEAN
           d0 == BlankDraft
           d1 == [d0 EXCEPT !.max = 1, !.locality = "local"]
           d2 == [d1 EXCEPT !.isNode = TRUE, !.wake = 3, !.idle = 1, !.control = "u", !.shutdown = ""]
<1>1. ProviderDrafts =
        [address : A, scheme : S, header : H, typed : T, clear : B, max : N, enabled : B,
         stream : B, rest : R, locality : L, isNode : B, wake : W, idle : I, control : C,
         shutdown : D]
  BY DEF ProviderDrafts
<1>2. /\ "" \in A /\ "bearer" \in S /\ "" \in H /\ "" \in T /\ FALSE \in B /\ TRUE \in B
      /\ Null \in N /\ 1 \in N /\ Null \in R /\ "cloud" \in L /\ "local" \in L /\ 3 \in W
      /\ Null \in I /\ 1 \in I /\ "" \in C /\ "u" \in C /\ "" \in D
  OBVIOUS
<1> HIDE DEF A, S, H, T, N, R, L, W, I, C, D, B
<1>3. d0 \in ProviderDrafts /\ d0.typed = "" /\ d0.clear = FALSE
  BY <1>1, <1>2 DEF BlankDraft
<1>4. DraftFromPreset = d2
  <2> DEFINE n == [wake |-> 3, idle |-> 1, control |-> "u", shutdown |-> ""]
  <2>1. n.wake = 3 /\ n.idle = 1 /\ n.control = "u" /\ n.shutdown = "" /\ n # Null
    <3>1. n \in NodeDrafts
      BY DEF NodeDrafts
    <3> QED BY <3>1, NullIsNoField
  <2>2. DraftFromPreset = ApplyNode(d1, n)
    BY Zenon DEF DraftFromPreset
  <2> HIDE DEF n, d0, d1
  <2> QED BY <2>1, <2>2, Zenon DEF ApplyNode
<1> HIDE DEF d0
<1>5. d1 \in ProviderDrafts /\ d1.typed = "" /\ d1.clear = FALSE
  BY <1>1, <1>2, <1>3
<1> HIDE DEF d1
<1>6. d2 \in ProviderDrafts /\ d2.typed = "" /\ d2.clear = FALSE
  BY <1>1, <1>2, <1>5
<1> HIDE DEF d2
<1> QED BY <1>3, <1>4, <1>6 DEF d0

(* A key's editor, opened and saved at once, keeps the key.                *)
LEMMA KeyKept ==
  ASSUME NEW k \in KeyRecords
  PROVE  /\ DraftFromKey(k) \in KeyDrafts
         /\ KeyBody(DraftFromKey(k)) = k
         /\ ~KeyRefused(k)
<1>1. k.local \in BOOLEAN /\ k.allowed \in {Null, {}, {"m"}} /\ k.rpm \in {Null, 1, 2}
  BY DEF KeyRecords
<1>2. DraftFromKey(k) \in KeyDrafts
  BY <1>1 DEF DraftFromKey, KeyDrafts, Or
<1>3. KeyBody(DraftFromKey(k)) = k
  BY <1>1, NullIsNoField DEF DraftFromKey, KeyBody, KeyRecords, Or
<1>4. ~KeyRefused(k)
  <2>1. Null \notin Nat
    BY NullIsNoField
  <2> QED BY <1>1, <2>1 DEF KeyRefused, Given, OutOfRange, KeyRecords
<1> QED BY <1>2, <1>3, <1>4

(* A saved key is of the table's kind.                                     *)
LEMMA KeySaved ==
  ASSUME NEW d \in KeyDrafts, ~KeyRefused(KeyBody(d))
  PROVE  KeyBody(d) \in KeyRecords
<1>1. d.local \in BOOLEAN /\ d.restrict \in BOOLEAN /\ d.allowed \in {{}, {"m"}}
      /\ d.rpm \in {Null, 0, 1, 2}
  BY DEF KeyDrafts
<1>2. d.rpm # 0
  BY DEF KeyRefused, KeyBody, Given, OutOfRange
<1> QED BY <1>1, <1>2 DEF KeyBody, KeyRecords

(* One field of the key's form at a time.                                  *)
LEMMA KeyEdited ==
  ASSUME NEW d \in KeyDrafts, NEW f \in DOMAIN KeyValues, NEW v \in KeyValues[f]
  PROVE  [d EXCEPT ![f] = v] \in KeyDrafts
<1>1. f \in {"local", "restrict", "allowed", "rpm"}
  BY DEF KeyValues
<1>2. CASE f = "local"
  BY <1>2 DEF KeyValues, KeyDrafts
<1>3. CASE f = "restrict"
  BY <1>3 DEF KeyValues, KeyDrafts
<1>4. CASE f = "allowed"
  BY <1>4 DEF KeyValues, KeyDrafts
<1>5. CASE f = "rpm"
  BY <1>5 DEF KeyValues, KeyDrafts
<1> QED BY <1>1, <1>2, <1>3, <1>4, <1>5

\* A model of the table, as far as the editor goes.
ModelTyped(m) ==
    DOMAIN m = {"reported", "overrides"} /\ DOMAIN m.overrides \subseteq ModelFields

(* What a patch makes of the owner's words.                                *)
LEMMA PatchedModel ==
  ASSUME NEW m, ModelTyped(m), NEW patch, DOMAIN patch \subseteq ModelFields
  PROVE  /\ ModelTyped(PatchModel(m, patch))
         /\ PatchModel(m, patch).reported = m.reported
         /\ \A f \in DOMAIN patch :
              /\ patch[f] = Null => f \notin DOMAIN PatchModel(m, patch).overrides
              /\ patch[f] # Null => /\ f \in DOMAIN PatchModel(m, patch).overrides
                                    /\ PatchModel(m, patch).overrides[f] = patch[f]
         /\ \A f : f \notin DOMAIN patch =>
              Given(PatchModel(m, patch).overrides, f, Null) = Given(m.overrides, f, Null)
<1> DEFINE removed == {f \in DOMAIN patch : patch[f] = Null}
           over == Over(patch, m.overrides)
           left == Without(over, removed)
           q == PatchModel(m, patch)
<1>1. q = [m EXCEPT !.overrides = left]
  BY DEF PatchModel
<1>2. /\ DOMAIN over = DOMAIN patch \cup DOMAIN m.overrides
      /\ \A f \in DOMAIN over : over[f] = IF f \in DOMAIN patch THEN patch[f] ELSE m.overrides[f]
  BY DEF Over
<1>3. removed \subseteq DOMAIN patch /\ \A f \in DOMAIN patch : f \in removed <=> patch[f] = Null
  OBVIOUS
<1> HIDE DEF over, removed
<1>4. DOMAIN left = DOMAIN over \ removed /\ \A f \in DOMAIN left : left[f] = over[f]
  BY DEF Without
<1> HIDE DEF left, q
<1>5. DOMAIN q = {"reported", "overrides"} /\ q.overrides = left /\ q.reported = m.reported
  BY <1>1 DEF ModelTyped
<1>6. DOMAIN left \subseteq ModelFields
  BY <1>2, <1>4 DEF ModelTyped
<1>7. \A f \in DOMAIN patch : /\ patch[f] = Null => f \notin DOMAIN left
                              /\ patch[f] # Null => f \in DOMAIN left /\ left[f] = patch[f]
  BY <1>2, <1>3, <1>4
<1>8. \A f : f \notin DOMAIN patch => Given(left, f, Null) = Given(m.overrides, f, Null)
  BY <1>2, <1>3, <1>4 DEF Given
<1> QED BY <1>5, <1>6, <1>7, <1>8, Zenon DEF ModelTyped, q

(* null is no number and no text.                                          *)
LEMMA NotNull == Null # 0 /\ Null # ""
<1>1. Null \notin Nat
  BY NullIsNoField
<1>2. Null # 0
  BY <1>1
<1>3. Null # ""
  BY NullIsNoField
<1> QED BY <1>2, <1>3

(* A patch that is not turned away leaves words that are in order.         *)
LEMMA PatchedModelInOrder ==
  ASSUME NEW m, ModelTyped(m), NEW patch, DOMAIN patch \subseteq ModelFields,
         ~ModelRefused(m.overrides), ~ModelRefused(patch)
  PROVE  ~ModelRefused(PatchModel(m, patch).overrides)
<1> DEFINE o == PatchModel(m, patch).overrides
<1>2. \A f : Given(o, f, Null) \in {Null, Given(patch, f, Null), Given(m.overrides, f, Null)}
  <2> TAKE f
  <2>1. CASE f \in DOMAIN patch
    BY <2>1, PatchedModel DEF Given
  <2>2. CASE f \notin DOMAIN patch
    BY <2>2, PatchedModel
  <2> QED BY <2>1, <2>2
<1> HIDE DEF o
<1> QED BY <1>2, NotNull DEF ModelRefused, OutOfRange, o

(* The owner's words as they are read: an empty description is dropped.    *)
LEMMA OverridesRead ==
  ASSUME NEW m
  PROVE  /\ DOMAIN Overrides(m) \subseteq DOMAIN m.overrides
         /\ \A f : Given(Overrides(m), f, Null) =
              IF f = "description" /\ Given(m.overrides, f, Null) = "" THEN Null
              ELSE Given(m.overrides, f, Null)
         /\ \A f \in DOMAIN m.overrides : ~(f = "description" /\ m.overrides[f] = "") =>
              f \in DOMAIN Overrides(m) /\ Overrides(m)[f] = m.overrides[f]
<1> DEFINE o == m.overrides
           left == Without(o, {"description"})
<1>1. DOMAIN left = DOMAIN o \ {"description"} /\ \A f \in DOMAIN left : left[f] = o[f]
  BY DEF Without
<1> HIDE DEF left
<1>2. CASE Given(o, "description", Null) = ""
  <2>1. Overrides(m) = left
    BY <1>2 DEF Overrides, left
  <2>2. "description" \in DOMAIN o => o["description"] = ""
    BY <1>2 DEF Given
  <2> HIDE DEF o
  <2> QED BY <1>1, <1>2, <2>1, <2>2 DEF Given, o
<1>3. CASE Given(o, "description", Null) # ""
  <2>1. Overrides(m) = o
    BY <1>3 DEF Overrides
  <2> QED BY <1>3, <2>1 DEF Given
<1> QED BY <1>2, <1>3

(* What the editor shows of a model.                                       *)
LEMMA ModelShown ==
  ASSUME NEW m, ModelTyped(m), NEW l
  PROVE  /\ ModelView(m, l).overrides = Overrides(m)
         /\ DOMAIN ModelView(m, l).fields = ModelFields
         /\ \A f \in DOMAIN Overrides(m) : ModelView(m, l).fields[f] = Overrides(m)[f]
<1> DEFINE r == Resolve(m, l)
           o == Overrides(m)
           v == ModelView(m, l)
<1>1. DOMAIN r = ModelFields
  BY DEF Resolve, ModelFields, Resettable
<1>2. DOMAIN o \subseteq ModelFields
  BY OverridesRead DEF ModelTyped
<1> HIDE DEF r, o
<1>3. v.fields = Over(o, r) /\ v.overrides = o
  BY DEF ModelView, r, o
<1> HIDE DEF v
<1> QED BY <1>1, <1>2, <1>3 DEF Over, v, o

DialogFields == {"at", "kind", "mode", "view", "draft", "reset", "touched"}

(* A dialog whose progress changes.                                        *)
LEMMA AtChanged ==
  ASSUME NEW d, DOMAIN d = DialogFields, NEW a
  PROVE  /\ DOMAIN [d EXCEPT !.at = a] = DialogFields
         /\ [d EXCEPT !.at = a].at = a
         /\ \A f \in DialogFields \ {"at"} : [d EXCEPT !.at = a][f] = d[f]
  BY DEF DialogFields

(* A dialog stays sound when nothing but its progress changes.             *)
LEMMA DialogMoves ==
  ASSUME NEW d, DialogOK(d), NEW a \in {"editing", "sent", "saved", "refused"},
         d.kind = "provider" /\ a = "sent" => ~ProviderProblems(d.draft)
  PROVE  DialogOK([d EXCEPT !.at = a])
<1> DEFINE e == [d EXCEPT !.at = a]
<1>1. DOMAIN d = DialogFields
  BY Zenon DEF DialogOK, DialogFields
<1>2. DOMAIN e = DialogFields /\ e.at = a /\ \A f \in DialogFields \ {"at"} : e[f] = d[f]
  BY <1>1, AtChanged
<1> HIDE DEF e
<1>3. /\ e.kind = d.kind /\ e.mode = d.mode /\ e.view = d.view /\ e.draft = d.draft
      /\ e.reset = d.reset /\ e.touched = d.touched
  BY <1>2 DEF DialogFields
<1>4. DOMAIN e = {"at", "kind", "mode", "view", "draft", "reset", "touched"}
  BY <1>2, Zenon DEF DialogFields
<1>5. d.kind = "provider" \/ d.kind = "model" \/ d.kind = "key"
  BY Zenon DEF DialogOK
<1> QED BY <1>2, <1>3, <1>4, Zenon DEF DialogOK, e

\* A dialog after a change of one field.
FieldChanged(e, d, f, v) ==
    /\ DOMAIN e = {"at", "kind", "mode", "view", "draft", "reset", "touched"}
    /\ e.at = d.at /\ e.kind = d.kind /\ e.mode = d.mode /\ e.view = d.view
    /\ e.draft = [d.draft EXCEPT ![f] = v]
    /\ e.touched = d.touched \cup {f}

FieldPut(d, f, v, r) == [d EXCEPT !.draft[f] = v, !.reset = r, !.touched = @ \cup {f}]

(* The change of one field, in any dialog.                                 *)
LEMMA SetChanges ==
  ASSUME NEW d, DOMAIN d = DialogFields, NEW f, NEW v, NEW r
  PROVE  FieldChanged(FieldPut(d, f, v, r), d, f, v) /\ FieldPut(d, f, v, r).reset = r
  BY DEF DialogFields, FieldChanged, FieldPut

ProviderOK(p) == p = Null \/ (p \in ProviderRecords /\ RowInOrder(p))

ModelOK(m, p) == m = Null \/ (p # Null /\ ModelTyped(m) /\ ~ModelRefused(m.overrides))

KeyOK(k) == k = Null \/ k \in KeyRecords

CountsOK == edits \in 0 .. MaxEdits /\ others \in 0 .. MaxOthers /\ lost \in 0 .. MaxLost

\* RecordsInv without what follows from the rest of it.
RecordsCore ==
    /\ ProviderOK(row) /\ ModelOK(model, row) /\ KeyOK(key)
    /\ dialog = NoDialog \/ DialogOK(dialog)
    /\ CountsOK

(* That core is all of the invariant.                                      *)
LEMMA CoreIsEnough == RecordsCore => RecordsInv
<1> SUFFICES ASSUME RecordsCore PROVE RecordsInv
  OBVIOUS
<1>1. EditorsTypeOK
  BY DEF RecordsCore, ProviderOK, ModelOK, KeyOK, CountsOK, ModelTyped, EditorsTypeOK
<1>2. row # Null => RowInOrder(row) /\ KeptAsItIs(row)
  BY KeptInOrder DEF RecordsCore, ProviderOK
<1>3. model # Null => ~ModelRefused(model.overrides)
  BY DEF RecordsCore, ModelOK
<1>4. key # Null => ~KeyRefused(key) /\ KeyBody(DraftFromKey(key)) = key
  BY KeyKept DEF RecordsCore, KeyOK
<1> QED BY <1>1, <1>2, <1>3, <1>4 DEF RecordsInv

(* The tables the hub may start with are in order.                         *)
LEMMA CoreAtFirst == EditorsInit => RecordsCore
<1> SUFFICES ASSUME EditorsInit PROVE RecordsCore
  OBVIOUS
<1>1. ProviderOK(row)
  BY InitialRowsInOrder DEF EditorsInit, ProviderOK
<1>2. ModelOK(model, row)
  <2>1. CASE model = Null
    BY <2>1 DEF ModelOK
  <2>2. CASE model \in Models /\ row = BaseRow
    <3>1. BaseRow # Null
      BY InitialRowsInOrder, NullIsNoField
    <3> DEFINE o1 == [context |-> 2]
               o2 == [locality |-> "local"]
               o3 == [description |-> ""]
               o4 == [enabled |-> FALSE, name |-> "o"]
    <3>2. DOMAIN model = {"reported", "overrides"} /\ model.overrides \in {<<>>, o1, o2, o3, o4}
      BY <2>2 DEF Models
    <3>3. \A o \in {<<>>, o1, o2, o3, o4} : DOMAIN o \subseteq ModelFields /\ ~ModelRefused(o)
      <4>1. Null # 0 /\ Null # ""
        BY NotNull
      <4>2. DOMAIN <<>> = {}
        OBVIOUS
      <4>3. DOMAIN <<>> \subseteq ModelFields /\ ~ModelRefused(<<>>)
        BY <4>1, <4>2 DEF ModelRefused, Given, OutOfRange
      <4>4. DOMAIN o1 \subseteq ModelFields /\ ~ModelRefused(o1)
        <5>1. DOMAIN o1 = {"context"} /\ o1["context"] = 2
          OBVIOUS
        <5> HIDE DEF o1
        <5>2. Given(o1, "name", Null) = Null /\ Given(o1, "context", Null) = 2
          BY <5>1 DEF Given
        <5>3. ~OutOfRange(2)
          BY DEF OutOfRange
        <5>4. ~ModelRefused(o1)
          BY <4>1, <5>2, <5>3, Zenon DEF ModelRefused
        <5> QED BY <5>1, <5>4 DEF ModelFields, Resettable
      <4>5. DOMAIN o2 \subseteq ModelFields /\ ~ModelRefused(o2)
        BY <4>1 DEF ModelRefused, Given, OutOfRange, ModelFields, Resettable
      <4>6. DOMAIN o3 \subseteq ModelFields /\ ~ModelRefused(o3)
        BY <4>1 DEF ModelRefused, Given, OutOfRange, ModelFields, Resettable
      <4>7. DOMAIN o4 \subseteq ModelFields /\ ~ModelRefused(o4)
        BY <4>1 DEF ModelRefused, Given, OutOfRange, ModelFields, Resettable
      <4> HIDE DEF o1, o2, o3, o4
      <4> QED BY <4>3, <4>4, <4>5, <4>6, <4>7
    <3> HIDE DEF o1, o2, o3, o4
    <3> QED BY <2>2, <3>1, <3>2, <3>3 DEF ModelOK, ModelTyped
  <2> QED BY <2>1, <2>2 DEF EditorsInit
<1>3. KeyOK(key)
  BY DEF EditorsInit, KeyOK, Keys, KeyRecords
<1>4. CountsOK
  BY BoundsAreNumbers DEF EditorsInit, CountsOK
<1> QED BY <1>1, <1>2, <1>3, <1>4 DEF EditorsInit, RecordsCore

(* The bounds of the model.                                                *)
LEMMA CountsStep == CountsOK /\ EditorsNext => CountsOK'
<1> SUFFICES ASSUME CountsOK, EditorsNext PROVE CountsOK'
  OBVIOUS
<1> USE DEF CountsOK
<1>1. CASE EditProvider \/ EditModel \/ EditKey
  <2>1. PICK f, v : Set(f, v)
    BY <1>1 DEF EditProvider, EditModel, EditKey
  <2> QED BY <2>1, BoundsAreNumbers DEF Set
<1>2. CASE ResetField
  BY <1>2, BoundsAreNumbers DEF ResetField
<1>3. CASE LoseCall
  BY <1>3, BoundsAreNumbers DEF LoseCall
<1>4. CASE PatchByOthers \/ SyncByOthers \/ DeleteByOthers
  BY <1>4, BoundsAreNumbers DEF PatchByOthers, SyncByOthers, DeleteByOthers, Other
<1>5. CASE UNCHANGED <<edits, others, lost>>
  BY <1>5
<1> QED BY <1>1, <1>2, <1>3, <1>4, <1>5, Zenon
        DEF EditorsNext, OpenDialog, Submit, Close, SaveProvider, SaveModel, SaveKey, HearAnswer

(* No step leaves a key that is not in order.                              *)
LEMMA KeyStep == RecordsCore /\ EditorsNext => KeyOK(key)'
<1> SUFFICES ASSUME RecordsCore, EditorsNext PROVE KeyOK(key)'
  OBVIOUS
<1> USE DEF KeyOK
<1>1. KeyOK(key)
  BY DEF RecordsCore
<1>2. CASE SaveKey
  <2>1. dialog.at = "sent" /\ dialog.kind = "key"
    BY <1>2 DEF SaveKey
  <2>2. dialog.draft \in KeyDrafts
    BY <2>1 DEF RecordsCore, DialogOK, NoDialog
  <2>3. key' = key \/ (key' = KeyBody(dialog.draft) /\ ~KeyRefused(KeyBody(dialog.draft)))
    BY <1>2 DEF SaveKey
  <2> QED BY <1>1, <2>2, <2>3, KeySaved
<1>3. CASE PatchByOthers
  <2>1. CASE UNCHANGED key
    BY <1>1, <2>1
  <2>2. CASE PatchKeyByOthers
    <3>1. key \in KeyRecords
      BY <1>1, <2>2 DEF PatchKeyByOthers
    <3>2. PICK allowed \in {Null, {}, {"m"}} : key' = [key EXCEPT !.allowed = allowed]
      BY <2>2 DEF PatchKeyByOthers
    <3> QED BY <3>1, <3>2 DEF KeyRecords
  <2> QED BY <1>3, <2>1, <2>2 DEF PatchByOthers, PatchProviderByOthers, PatchModelByOthers
<1>4. CASE DeleteByOthers
  BY <1>1, <1>4 DEF DeleteByOthers, DeleteKeyByOthers, DeleteProviderByOthers
<1>5. CASE UNCHANGED key
  BY <1>1, <1>5
<1>6. CASE EditProvider \/ EditModel \/ EditKey
  BY <1>5, <1>6 DEF EditProvider, EditModel, EditKey, Set
<1> QED BY <1>2, <1>3, <1>4, <1>5, <1>6, Zenon
        DEF EditorsNext, OpenDialog, ResetField, Submit, Close, SaveProvider, SaveModel, HearAnswer,
            LoseCall, SyncByOthers

(* Of an open dialog.                                                      *)
LEMMA DialogIsOK == RecordsCore /\ dialog.at # "closed" => DialogOK(dialog)
  BY DEF RecordsCore, NoDialog

(* Of a provider's dialog.                                                 *)
LEMMA FormIsOK ==
  ASSUME NEW d, DialogOK(d), d.kind = "provider"
  PROVE  /\ d.draft \in ProviderDrafts /\ d.mode \in {"create", "edit"}
         /\ d.at = "sent" => ~ProviderProblems(d.draft)
         /\ "typed" \notin d.touched => d.draft.typed = ""
         /\ "clear" \notin d.touched => ~d.draft.clear
<1>1. d.mode \in {"create", "edit"}
  BY Zenon DEF DialogOK
<1>2. d.kind # "model" /\ d.kind # "key"
  OBVIOUS
<1> QED BY <1>1, <1>2, Zenon DEF DialogOK

(* Of a model's dialog.                                                    *)
LEMMA ModelDialogIsOK ==
  ASSUME NEW d, DialogOK(d), d.kind = "model"
  PROVE  /\ DOMAIN d.draft = ModelFields
         /\ d.reset \subseteq d.touched \cap Resettable /\ d.touched \subseteq ModelFields
         /\ \A f \in ModelFields \ d.touched : d.draft[f] = d.view.fields[f]
<1>1. d.kind # "provider" /\ d.kind # "key"
  OBVIOUS
<1> QED BY <1>1, Zenon DEF DialogOK

(* A provider stays, is changed into one in order, or goes with its models.*)
LEMMA ProviderStep ==
  RecordsCore /\ EditorsNext => \/ row' \in ProviderRecords /\ RowInOrder(row')
                                \/ row' = row
                                \/ row' = Null /\ model' = Null
<1> DEFINE Stored == row' \in ProviderRecords /\ RowInOrder(row')
           Deleted == row' = Null /\ model' = Null
<1> SUFFICES ASSUME RecordsCore, EditorsNext PROVE Stored \/ row' = row \/ Deleted
  OBVIOUS
<1> USE DEF ProviderOK
<1>1. ProviderOK(row)
  BY DEF RecordsCore
<1>2. CASE SaveProvider
  <2> DEFINE d == dialog.draft
             patch == ToInput(d, dialog.mode)
             c == IF dialog.mode = "create" THEN NewRow ELSE row
  <2>1. dialog.at = "sent" /\ dialog.kind = "provider"
    BY <1>2 DEF SaveProvider
  <2>2. d \in ProviderDrafts /\ ~ProviderProblems(d) /\ dialog.mode \in {"create", "edit"}
    <3>1. DialogOK(dialog)
      BY <2>1, DialogIsOK
    <3> QED BY <2>1, <3>1, FormIsOK
  <2>3. CASE row' = row
    BY <1>1, <2>3
  <2>4. CASE /\ (dialog.mode = "create") = (row = Null) /\ ~ProviderRefused(c, patch)
             /\ row' = UpdateProvider(c, patch)
    <3>1. \/ dialog.mode = "create" /\ c = NewRow
          \/ dialog.mode = "edit" /\ c \in ProviderRecords /\ RowInOrder(c)
      BY <1>1, <2>2, <2>4
    <3> QED BY <2>2, <2>4, <3>1, FormSaved
  <2> QED BY <1>2, <2>3, <2>4 DEF SaveProvider
<1>3. CASE PatchByOthers
  <2>1. CASE UNCHANGED row
    BY <1>1, <2>1
  <2>2. CASE PatchProviderByOthers
    <3>1. row \in ProviderRecords /\ RowInOrder(row)
      BY <1>1, <2>2 DEF PatchProviderByOthers
    <3>2. PICK patch \in ProviderPatches :
             ~ProviderRefused(row, patch) /\ row' = UpdateProvider(row, patch)
      BY <2>2, Zenon DEF PatchProviderByOthers
    <3>3. PatchTyped(row, patch)
      BY <3>1, OthersTyped
    <3> QED BY <3>1, <3>2, <3>3, PatchedInOrder
  <2> QED BY <1>3, <2>1, <2>2, Zenon DEF PatchByOthers, PatchKeyByOthers, PatchModelByOthers
<1>4. CASE DeleteByOthers
  BY <1>1, <1>4 DEF DeleteByOthers, DeleteKeyByOthers, DeleteProviderByOthers
<1>5. CASE UNCHANGED row
  BY <1>1, <1>5
<1>6. CASE EditProvider \/ EditModel \/ EditKey
  BY <1>5, <1>6 DEF EditProvider, EditModel, EditKey, Set
<1> QED BY <1>2, <1>3, <1>4, <1>5, <1>6, Zenon
        DEF EditorsNext, OpenDialog, ResetField, Submit, Close, SaveModel, SaveKey, HearAnswer,
            LoseCall, SyncByOthers

(* What the model's editor sends.                                          *)
LEMMA PatchFromFields ==
  ASSUME NEW view, NEW d, NEW reset
  PROVE  /\ \A f : f \in DOMAIN PatchFrom(view, d, reset) <=>
                   f \in reset \/ (f \in DOMAIN d /\ d[f] # view.fields[f])
         /\ \A f \in DOMAIN PatchFrom(view, d, reset) :
              PatchFrom(view, d, reset)[f] = IF f \in reset THEN Null ELSE d[f]
  BY DEF PatchFrom

(* No step leaves a model whose words are not in order.                    *)
LEMMA ModelStep == RecordsCore /\ EditorsNext => ModelOK(model, row)'
<1> SUFFICES ASSUME RecordsCore, EditorsNext PROVE ModelOK(model, row)'
  OBVIOUS
<1> USE DEF ModelOK
<1>1. ModelOK(model, row)
  BY DEF RecordsCore
<1>2. \/ row' = row
      \/ row' # Null
      \/ model' = Null
  BY ProviderStep, NullIsNoField
<1>3. ASSUME model # Null, NEW patch, DOMAIN patch \subseteq ModelFields, ~ModelRefused(patch)
      PROVE  LET m == PatchModel(model, patch) IN ModelTyped(m) /\ ~ModelRefused(m.overrides)
  BY <1>1, <1>3, PatchedModel, PatchedModelInOrder
<1>4. CASE SaveModel
  <2> DEFINE patch == PatchFrom(dialog.view, dialog.draft, dialog.reset)
  <2>1. dialog.at = "sent" /\ dialog.kind = "model"
    BY <1>4 DEF SaveModel
  <2>2. /\ DOMAIN dialog.draft = ModelFields
        /\ dialog.reset \subseteq ModelFields
    <3>1. DialogOK(dialog)
      BY <2>1, DialogIsOK
    <3> QED BY <2>1, <3>1, ModelDialogIsOK
  <2>3. DOMAIN patch \subseteq ModelFields
    <3>1. \A f \in DOMAIN patch : f \in dialog.reset \/ f \in DOMAIN dialog.draft
      BY PatchFromFields
    <3> HIDE DEF patch
    <3> QED BY <2>2, <3>1
  <2>4. CASE model' = model
    BY <1>1, <1>2, <2>4
  <2>5. CASE model # Null /\ ~ModelRefused(patch) /\ model' = PatchModel(model, patch)
    <3>1. ModelTyped(model') /\ ~ModelRefused(model'.overrides)
      BY <1>3, <2>3, <2>5
    <3>2. row' = row
      BY <1>4 DEF SaveModel
    <3> QED BY <1>1, <2>5, <3>1, <3>2
  <2> QED BY <1>4, <2>4, <2>5 DEF SaveModel
<1>5. CASE PatchByOthers
  <2>1. CASE UNCHANGED model
    BY <1>1, <1>2, <2>1
  <2>2. CASE PatchModelByOthers
    <3>0. PICK f \in DOMAIN ModelValues :
             \E v : LET patch == [g \in {f} |-> v]
                   IN  ~ModelRefused(patch) /\ model' = PatchModel(model, patch)
      BY <2>2 DEF PatchModelByOthers
    <3>1. PICK v : LET patch == [g \in {f} |-> v]
                   IN  ~ModelRefused(patch) /\ model' = PatchModel(model, patch)
      BY <3>0
    <3> DEFINE patch == [g \in {f} |-> v]
    <3>2. DOMAIN patch = {f} /\ f \in ModelFields
      BY DEF ModelValues, ModelFields, Resettable
    <3>3. model # Null /\ row' = row
      BY <2>2 DEF PatchModelByOthers
    <3> HIDE DEF patch
    <3>4. ~ModelRefused(patch) /\ model' = PatchModel(model, patch)
      BY <3>1 DEF patch
    <3>5. ModelTyped(model') /\ ~ModelRefused(model'.overrides)
      BY <1>3, <3>2, <3>3, <3>4
    <3> QED BY <1>1, <3>3, <3>5
  <2> QED BY <1>5, <2>1, <2>2, Zenon DEF PatchByOthers, PatchKeyByOthers, PatchProviderByOthers
<1>6. CASE SyncByOthers
  <2>1. PICK report : model' = [model EXCEPT !.reported = report]
    BY <1>6 DEF SyncByOthers
  <2>2. ModelTyped(model) /\ ~ModelRefused(model.overrides) /\ row # Null /\ row' = row
    BY <1>1, <1>6 DEF SyncByOthers
  <2>3. ModelTyped(model') /\ model'.overrides = model.overrides
    BY <2>1, <2>2 DEF ModelTyped
  <2> QED BY <2>2, <2>3
<1>7. CASE DeleteByOthers
  BY <1>1, <1>7 DEF DeleteByOthers, DeleteKeyByOthers, DeleteProviderByOthers
<1>8. CASE UNCHANGED model
  BY <1>1, <1>2, <1>8
<1>9. CASE EditProvider \/ EditModel \/ EditKey
  BY <1>8, <1>9 DEF EditProvider, EditModel, EditKey, Set
<1> QED BY <1>4, <1>5, <1>6, <1>7, <1>8, <1>9, Zenon
        DEF EditorsNext, OpenDialog, ResetField, Submit, Close, SaveProvider, SaveKey, HearAnswer,
            LoseCall

(* A dialog as it is opened.                                               *)
LEMMA OpenedOK ==
  ASSUME NEW kind, NEW mode \in {"create", "edit"}, NEW view, NEW draft,
         \/ kind = "provider" /\ draft \in ProviderDrafts /\ draft.typed = "" /\ ~draft.clear
         \/ kind = "model" /\ DOMAIN draft = ModelFields /\ draft = view.fields
         \/ kind = "key" /\ draft \in KeyDrafts
  PROVE  DialogOK(Opened(kind, mode, view, draft))
<1> DEFINE d == Opened(kind, mode, view, draft)
<1>1. /\ DOMAIN d = {"at", "kind", "mode", "view", "draft", "reset", "touched"}
      /\ d.at = "editing" /\ d.kind = kind /\ d.mode = mode /\ d.view = view /\ d.draft = draft
      /\ d.reset = {} /\ d.touched = {}
  BY DEF Opened
<1> HIDE DEF d
<1>2. CASE kind = "provider" /\ draft \in ProviderDrafts /\ draft.typed = "" /\ ~draft.clear
  BY <1>1, <1>2 DEF DialogOK, d
<1>3. CASE kind = "model" /\ DOMAIN draft = ModelFields /\ draft = view.fields
  BY <1>1, <1>3 DEF DialogOK, d
<1>4. CASE kind = "key" /\ draft \in KeyDrafts
  BY <1>1, <1>4 DEF DialogOK, d
<1> QED BY <1>2, <1>3, <1>4

(* Every editor opens with what the row shows.                             *)
LEMMA OpenStep == RecordsCore /\ OpenDialog => DialogOK(dialog')
<1> SUFFICES ASSUME RecordsCore, OpenDialog PROVE DialogOK(dialog')
  OBVIOUS
<1> DEFINE P1 == \E draft \in {BlankDraft, DraftFromPreset} :
                    dialog' = Opened("provider", "create", Null, draft)
           P2 == /\ row # Null
                 /\ LET view == ProviderView(row)
                    IN  dialog' = Opened("provider", "edit", view, DraftFromProvider(view))
           P3 == /\ model # Null
                 /\ LET view == ModelView(model, row.locality)
                    IN  dialog' = Opened("model", "edit", view, view.fields)
           P4 == dialog' = Opened("key", "create", Null, DraftFromKey(NewKey))
           P5 == key # Null /\ dialog' = Opened("key", "edit", key, DraftFromKey(key))
<1>1. P1 \/ P2 \/ P3 \/ P4 \/ P5
  BY Zenon DEF OpenDialog
<1>2. CASE P1
  <2>1. PICK draft \in {BlankDraft, DraftFromPreset} :
          dialog' = Opened("provider", "create", Null, draft)
    BY <1>2
  <2>2. draft \in ProviderDrafts /\ draft.typed = "" /\ ~draft.clear
    BY PresetDrafts
  <2> QED BY <2>1, <2>2, OpenedOK
<1>3. CASE P2
  <2>1. row \in ProviderRecords /\ RowInOrder(row)
    BY <1>3 DEF RecordsCore, ProviderOK
  <2> DEFINE draft == DraftFromProvider(ProviderView(row))
  <2>2. draft \in ProviderDrafts /\ draft.typed = "" /\ draft.clear = FALSE
    BY <2>1, FormOfRow
  <2> HIDE DEF draft
  <2>3. dialog' = Opened("provider", "edit", ProviderView(row), draft)
    BY <1>3, Zenon DEF draft
  <2> QED BY <2>2, <2>3, OpenedOK
<1>4. CASE P3
  <2> DEFINE view == ModelView(model, row.locality)
  <2>1. DOMAIN view.fields = ModelFields
    BY <1>4, ModelShown DEF RecordsCore, ModelOK
  <2> HIDE DEF view
  <2>2. dialog' = Opened("model", "edit", view, view.fields)
    BY <1>4, Zenon DEF view
  <2> QED BY <2>1, <2>2, OpenedOK
<1>5. CASE P4
  <2>1. NewKey \in KeyRecords
    BY DEF NewKey, KeyRecords
  <2>2. DraftFromKey(NewKey) \in KeyDrafts
    BY <2>1, KeyKept
  <2> QED BY <1>5, <2>2, OpenedOK
<1>6. CASE P5
  <2>1. DraftFromKey(key) \in KeyDrafts
    BY <1>6, KeyKept DEF RecordsCore, KeyOK
  <2> QED BY <1>6, <2>1, OpenedOK
<1> QED BY <1>1, <1>2, <1>3, <1>4, <1>5, <1>6

(* An edit changes one field of the open dialog.                           *)
LEMMA FieldSet ==
  ASSUME DialogOK(dialog), NEW f, NEW v, Set(f, v)
  PROVE  FieldChanged(dialog', dialog, f, v) /\ dialog'.reset = dialog.reset \ {f}
<1>1. DOMAIN dialog = DialogFields
  BY Zenon DEF DialogOK, DialogFields
<1> DEFINE r == dialog.reset \ {f}
<1>2. dialog' = FieldPut(dialog, f, v, r)
  BY DEF Set, FieldPut
<1> HIDE DEF r
<1>3. FieldChanged(dialog', dialog, f, v) /\ dialog'.reset = r
  BY <1>1, <1>2, SetChanges
<1> QED BY <1>3 DEF r

(* No edit leaves a dialog that is not in order.                           *)
LEMMA EditStep ==
  ASSUME RecordsCore, EditProvider \/ EditModel \/ ResetField \/ EditKey
  PROVE  DialogOK(dialog')
<1>1. dialog.at = "editing" /\ DialogOK(dialog)
  <2>1. dialog.at = "editing"
    BY DEF EditProvider, EditModel, ResetField, EditKey, Editing
  <2> QED BY <2>1, DialogIsOK
<1>2. dialog.mode \in {"create", "edit"}
  BY <1>1, Zenon DEF DialogOK
<1>3. CASE EditProvider
  <2>1. dialog.kind = "provider"
    BY <1>3 DEF EditProvider, Editing
  <2>0. PICK f \in ProviderFields(dialog.mode, dialog.view, dialog.draft) :
            \E v \in ProviderValues[f] : Set(f, v)
    BY <1>3 DEF EditProvider
  <2>2. PICK v \in ProviderValues[f] : Set(f, v)
    BY <2>0
  <2>3. f \in DOMAIN ProviderValues
    BY DEF ProviderFields, ProviderValues
  <2>4. FieldChanged(dialog', dialog, f, v)
    BY <1>1, <2>2, FieldSet
  <2>5. /\ dialog.draft \in ProviderDrafts
        /\ "typed" \notin dialog.touched => dialog.draft.typed = ""
        /\ "clear" \notin dialog.touched => ~dialog.draft.clear
    BY <1>1, <2>1, FormIsOK
  <2> DEFINE draft == [dialog.draft EXCEPT ![f] = v]
  <2>6. draft \in ProviderDrafts
    BY <2>3, <2>5, DraftEdited
  <2>7. /\ f # "typed" => draft.typed = dialog.draft.typed
        /\ f # "clear" => draft.clear = dialog.draft.clear
    BY <2>5 DEF ProviderDrafts
  <2>8. dialog'.draft = draft /\ dialog'.touched = dialog.touched \cup {f}
    BY <2>4, Zenon DEF FieldChanged
  <2> HIDE DEF draft
  <2>9. /\ "typed" \notin dialog'.touched => dialog'.draft.typed = ""
        /\ "clear" \notin dialog'.touched => ~dialog'.draft.clear
    BY <2>5, <2>7, <2>8
  <2>10. dialog'.at = "editing" /\ dialog'.kind = "provider" /\ dialog'.mode = dialog.mode
         /\ DOMAIN dialog' = {"at", "kind", "mode", "view", "draft", "reset", "touched"}
    BY <1>1, <2>1, <2>4, Zenon DEF FieldChanged
  <2>11. dialog'.draft \in ProviderDrafts
    BY <2>6, <2>8
  <2> QED BY <1>2, <2>9, <2>10, <2>11 DEF DialogOK
<1>4. CASE EditModel
  <2>1. dialog.kind = "model"
    BY <1>4 DEF EditModel, Editing
  <2>0. PICK f \in DOMAIN ModelValues : \E v : Set(f, v)
    BY <1>4 DEF EditModel
  <2>2. PICK v : Set(f, v)
    BY <2>0
  <2>3. f \in ModelFields
    BY DEF ModelValues, ModelFields, Resettable
  <2>4. FieldChanged(dialog', dialog, f, v) /\ dialog'.reset = dialog.reset \ {f}
    BY <1>1, <2>2, FieldSet
  <2> QED BY <1>1, <1>2, <2>1, <2>3, <2>4, ModelDialogIsOK DEF FieldChanged, DialogOK
<1>5. CASE ResetField
  <2>1. dialog.kind = "model"
    BY <1>5 DEF ResetField, Editing
  <2>2. PICK f \in (Resettable \cap DOMAIN dialog.view.overrides) \ dialog.reset :
          dialog' = [dialog EXCEPT !.draft[f] = FromReported(dialog.view)[f], !.reset = @ \cup {f},
                                   !.touched = @ \cup {f}]
    BY <1>5 DEF ResetField
  <2> DEFINE v == FromReported(dialog.view)[f]
             r == dialog.reset \cup {f}
  <2>3. dialog' = FieldPut(dialog, f, v, r)
    BY <2>2 DEF FieldPut
  <2> HIDE DEF v, r
  <2>4. DOMAIN dialog = DialogFields
    BY <1>1, Zenon DEF DialogOK, DialogFields
  <2>5. FieldChanged(dialog', dialog, f, v) /\ dialog'.reset = r
    BY <2>3, <2>4, SetChanges
  <2>6. f \in ModelFields /\ f \in Resettable
    BY <2>2 DEF ModelFields
  <2> QED BY <1>1, <1>2, <2>1, <2>5, <2>6, ModelDialogIsOK DEF FieldChanged, DialogOK, r
<1>6. CASE EditKey
  <2>1. dialog.kind = "key"
    BY <1>6 DEF EditKey, Editing
  <2>0. PICK f \in DOMAIN KeyValues : \E v \in KeyValues[f] : Set(f, v)
    BY <1>6 DEF EditKey
  <2>2. PICK v \in KeyValues[f] : Set(f, v)
    BY <2>0
  <2>3. FieldChanged(dialog', dialog, f, v)
    BY <1>1, <2>2, FieldSet
  <2>4. dialog.draft \in KeyDrafts
    <3>1. dialog.kind # "provider" /\ dialog.kind # "model"
      BY <2>1
    <3> QED BY <1>1, <3>1, Zenon DEF DialogOK
  <2>5. [dialog.draft EXCEPT ![f] = v] \in KeyDrafts
    BY <2>2, <2>4, KeyEdited
  <2> QED BY <1>1, <1>2, <2>1, <2>3, <2>5, Zenon DEF FieldChanged, DialogOK
<1> QED BY <1>3, <1>4, <1>5, <1>6

(* Nor does any other step.                                                *)
LEMMA DialogStep ==
  RecordsCore /\ EditorsNext => (dialog = NoDialog \/ DialogOK(dialog))'
<1> SUFFICES ASSUME RecordsCore, EditorsNext PROVE (dialog = NoDialog \/ DialogOK(dialog))'
  OBVIOUS
<1>1. CASE OpenDialog
  BY <1>1, OpenStep
<1>2. CASE EditProvider \/ EditModel \/ ResetField \/ EditKey
  BY <1>2, EditStep
<1>3. CASE Submit
  <2>1. dialog.at = "editing" /\ ~Problems /\ dialog' = [dialog EXCEPT !.at = "sent"]
    BY <1>3 DEF Submit
  <2>2. DialogOK(dialog)
    BY <2>1, DialogIsOK
  <2>3. dialog.kind = "provider" => ~ProviderProblems(dialog.draft)
    BY <2>1 DEF Problems
  <2>4. DialogOK([dialog EXCEPT !.at = "sent"])
    BY <2>2, <2>3, DialogMoves
  <2> QED BY <2>1, <2>4
<1>4. CASE Close
  BY <1>4 DEF Close, NoDialog
<1>5. CASE SaveProvider \/ SaveModel \/ SaveKey
  <2>1. PICK ok : Answer(ok)
    BY <1>5 DEF SaveProvider, SaveModel, SaveKey
  <2>2. DialogOK(dialog)
    BY <1>5, DialogIsOK DEF SaveProvider, SaveModel, SaveKey
  <2>3. DialogOK([dialog EXCEPT !.at = "saved"]) /\ DialogOK([dialog EXCEPT !.at = "refused"])
    BY <2>2, DialogMoves
  <2> QED BY <2>1, <2>3 DEF Answer
<1>6. CASE HearAnswer
  <2>1. DialogOK(dialog)
    BY <1>6, DialogIsOK DEF HearAnswer
  <2>2. DialogOK([dialog EXCEPT !.at = "editing"])
    BY <2>1, DialogMoves
  <2> QED BY <1>6, <2>2 DEF HearAnswer, NoDialog
<1>7. CASE LoseCall
  <2>1. DialogOK(dialog)
    BY <1>7, DialogIsOK DEF LoseCall
  <2>2. DialogOK([dialog EXCEPT !.at = "editing"])
    BY <2>1, DialogMoves
  <2> QED BY <1>7, <2>2 DEF LoseCall
<1>8. CASE UNCHANGED dialog
  BY <1>8 DEF RecordsCore, DialogOK, NoDialog
<1> QED BY <1>1, <1>2, <1>3, <1>4, <1>5, <1>6, <1>7, <1>8, Zenon
        DEF EditorsNext, PatchByOthers, SyncByOthers, DeleteByOthers, Other

(* The invariant is kept by every step.                                    *)
LEMMA RecordsStep == RecordsCore /\ [EditorsNext]_editorsVars => RecordsCore'
<1> SUFFICES ASSUME RecordsCore, [EditorsNext]_editorsVars PROVE RecordsCore'
  OBVIOUS
<1>1. CASE EditorsNext
  <2>1. ProviderOK(row)'
    BY <1>1, ProviderStep DEF RecordsCore, ProviderOK
  <2>2. ModelOK(model, row)' /\ KeyOK(key)' /\ (dialog = NoDialog \/ DialogOK(dialog))' /\ CountsOK'
    BY <1>1, ModelStep, KeyStep, DialogStep, CountsStep DEF RecordsCore
  <2> QED BY <2>1, <2>2 DEF RecordsCore
<1>2. CASE UNCHANGED editorsVars
  BY <1>2 DEF editorsVars, RecordsCore, ProviderOK, ModelOK, KeyOK, CountsOK, ModelTyped, DialogOK,
              NoDialog
<1> QED BY <1>1, <1>2

(* The invariant holds throughout.                                         *)
LEMMA CoreHolds == EditorsSpec => []RecordsCore
  BY CoreAtFirst, RecordsStep, PTL DEF EditorsSpec

(* Whatever partial changes are made, by the editors or by others, no      *)
(* provider is stored that asks for a header it does not name or is to be  *)
(* shut down without an address to ask, and what is stored can be opened   *)
(* in its editor and saved as it is (RecordsInv).                          *)
THEOREM RecordsInvariant == EditorsSpec => []RecordsInv
  BY CoreHolds, CoreIsEnough, PTL

\* ModelAsShown, for a model before and after.
WordsAsShown(m, q, l, view, d, touched, reset) ==
    /\ \A f \in ModelFields \ touched :
          Given(ModelView(q, l).overrides, f, Null) = Given(Overrides(m), f, Null)
    /\ \A f \in reset : f \notin DOMAIN ModelView(q, l).overrides
    /\ \A f \in touched \ reset :
          d[f] # view.fields[f] /\ ~Emptied(f, d[f]) => ModelView(q, l).fields[f] = d[f]

(* A model that was patched from the editor is as the editor shows it.    *)
LEMMA ModelSavedAsShown ==
  ASSUME NEW m, ModelTyped(m), NEW l, NEW view, NEW d, NEW touched, NEW reset,
         DOMAIN d = ModelFields, reset \subseteq touched, touched \subseteq ModelFields,
         \A f \in ModelFields \ touched : d[f] = view.fields[f]
  PROVE  WordsAsShown(m, PatchModel(m, PatchFrom(view, d, reset)), l, view, d, touched, reset)
<1> DEFINE patch == PatchFrom(view, d, reset)
           q == PatchModel(m, patch)
           is == ModelView(q, l)
<1>1. /\ \A f : f \in DOMAIN patch <=> f \in reset \/ (f \in DOMAIN d /\ d[f] # view.fields[f])
      /\ \A f \in DOMAIN patch : patch[f] = IF f \in reset THEN Null ELSE d[f]
  BY PatchFromFields
<1> HIDE DEF patch
<1>2. DOMAIN patch \subseteq ModelFields
  BY <1>1
<1>3. /\ ModelTyped(q)
      /\ \A f \in DOMAIN patch :
           /\ patch[f] = Null => f \notin DOMAIN q.overrides
           /\ patch[f] # Null => f \in DOMAIN q.overrides /\ q.overrides[f] = patch[f]
      /\ \A f : f \notin DOMAIN patch =>
           Given(q.overrides, f, Null) = Given(m.overrides, f, Null)
  BY <1>2, PatchedModel
<1> HIDE DEF q
<1>4. /\ is.overrides = Overrides(q)
      /\ \A f \in DOMAIN Overrides(q) : is.fields[f] = Overrides(q)[f]
  BY <1>3, ModelShown
<1> HIDE DEF is
<1>5. ASSUME NEW f \in ModelFields \ touched
      PROVE  Given(is.overrides, f, Null) = Given(Overrides(m), f, Null)
  <2>1. f \notin DOMAIN patch
    BY <1>1, <1>5
  <2>2. Given(q.overrides, f, Null) = Given(m.overrides, f, Null)
    BY <1>3, <2>1
  <2>3. Given(Overrides(q), f, Null) = Given(Overrides(m), f, Null)
    BY <2>2, OverridesRead
  <2> QED BY <1>4, <2>3
<1>6. ASSUME NEW f \in reset PROVE f \notin DOMAIN is.overrides
  <2>1. f \notin DOMAIN q.overrides
    BY <1>1, <1>3, <1>6
  <2> QED BY <1>4, <2>1, OverridesRead
<1>7. ASSUME NEW f \in touched \ reset, d[f] # view.fields[f], ~Emptied(f, d[f])
      PROVE  is.fields[f] = d[f]
  <2>1. f \in DOMAIN patch /\ patch[f] = d[f] /\ d[f] # Null
    BY <1>1, <1>7 DEF Emptied
  <2>2. f \in DOMAIN q.overrides /\ q.overrides[f] = d[f]
    BY <1>3, <2>1
  <2>3. f \in DOMAIN Overrides(q) /\ Overrides(q)[f] = d[f]
    BY <1>7, <2>2, OverridesRead DEF Emptied
  <2> QED BY <1>4, <2>3
<1> QED BY <1>5, <1>6, <1>7 DEF is, q, patch, WordsAsShown

(* A call the hub has answered well is the save of its kind, carried out.  *)
LEMMA OnlySavesSave ==
  ASSUME RecordsCore, EditorsNext, dialog.at = "sent", dialog'.at = "saved"
  PROVE  SaveProvider \/ SaveModel \/ SaveKey
<1>1. DialogOK(dialog) /\ DOMAIN dialog = DialogFields
  <2>1. DialogOK(dialog)
    BY DialogIsOK
  <2> QED BY <2>1, Zenon DEF DialogOK, DialogFields
<1>2. [dialog EXCEPT !.at = "editing"].at = "editing"
  BY <1>1, AtChanged
<1>3. ~LoseCall
  BY <1>2 DEF LoseCall
<1>4. ~(OpenDialog \/ EditProvider \/ EditModel \/ ResetField \/ EditKey \/ Submit \/ Close
        \/ HearAnswer)
  BY DEF OpenDialog, NoDialog, EditProvider, EditModel, ResetField, EditKey, Editing, Submit, Close,
         HearAnswer
<1>5. ~(PatchByOthers \/ SyncByOthers \/ DeleteByOthers)
  BY DEF PatchByOthers, SyncByOthers, DeleteByOthers, Other
<1> QED BY <1>3, <1>4, <1>5, Zenon DEF EditorsNext

(* Only a call that was carried out is answered well.                      *)
LEMMA AnsweredWell ==
  ASSUME RecordsCore, dialog.at = "sent", dialog'.at = "saved", NEW ok \in BOOLEAN, Answer(ok)
  PROVE  ok
<1>1. DOMAIN dialog = DialogFields
  <2>1. DialogOK(dialog)
    BY DialogIsOK
  <2> QED BY <2>1, Zenon DEF DialogOK, DialogFields
<1>2. [dialog EXCEPT !.at = "refused"].at = "refused"
  BY <1>1, AtChanged
<1> QED BY <1>2 DEF Answer

\* SavesAsShown's claim on one step.
SavedAsShown ==
    CASE dialog.kind = "provider" -> ProviderAsShown(dialog.draft, dialog.touched)
      [] dialog.kind = "model" ->
           ModelAsShown(dialog.view, dialog.draft, dialog.touched, dialog.reset)
      [] dialog.kind = "key" -> KeyBody(dialog.draft) = key'

(* The save of each kind, step by step.                                    *)
LEMMA SavesStep ==
  ASSUME RecordsCore, EditorsNext, dialog.at = "sent", dialog'.at = "saved"
  PROVE  SavedAsShown
<1>1. DialogOK(dialog)
  BY DialogIsOK
<1>2. CASE SaveProvider
  <2> DEFINE d == dialog.draft
             patch == ToInput(d, dialog.mode)
             c == IF dialog.mode = "create" THEN NewRow ELSE row
             ok == (dialog.mode = "create") = (row = Null) /\ ~ProviderRefused(c, patch)
             new == UpdateProvider(c, patch)
  <2>1. dialog.kind = "provider"
    BY <1>2 DEF SaveProvider
  <2>2. /\ d \in ProviderDrafts /\ ~ProviderProblems(d) /\ dialog.mode \in {"create", "edit"}
        /\ "typed" \notin dialog.touched => d.typed = ""
        /\ "clear" \notin dialog.touched => ~d.clear
    BY <1>1, <2>1, FormIsOK
  <2>3. Answer(ok) /\ row' = IF ok THEN new ELSE row
    BY <1>2, Zenon DEF SaveProvider
  <2>4. ok
    <3>1. ok \in BOOLEAN
      OBVIOUS
    <3> HIDE DEF ok
    <3> QED BY <2>3, <3>1, AnsweredWell
  <2>5. row' = new
    BY <2>3, <2>4
  <2>6. \/ dialog.mode = "create" /\ c = NewRow
        \/ dialog.mode = "edit" /\ c = row /\ c \in ProviderRecords /\ RowInOrder(c)
    BY <2>2, <2>4 DEF RecordsCore, ProviderOK
  <2>7. /\ DraftFromProvider(ProviderView(new)) = OnceSaved(d)
        /\ d.typed = "" /\ ~d.clear => new.secret = c.secret
    <3>1. ~ProviderRefused(c, patch)
      BY <2>4
    <3> HIDE DEF c, d
    <3> QED BY <2>2, <2>6, <3>1, FormSaved
  <2>8. row # Null => c = row
    BY <2>2, <2>4
  <2> HIDE DEF new, ok, c
  <2>9. ProviderAsShown(d, dialog.touched)
    BY <2>2, <2>5, <2>7, <2>8 DEF ProviderAsShown
  <2> QED BY <2>1, <2>9, Zenon DEF SavedAsShown
<1>3. CASE SaveModel
  <2> DEFINE d == dialog.draft
             patch == PatchFrom(dialog.view, d, dialog.reset)
             ok == model # Null /\ ~ModelRefused(patch)
  <2>1. dialog.kind = "model"
    BY <1>3 DEF SaveModel
  <2>2. Answer(ok) /\ model' = IF ok THEN PatchModel(model, patch) ELSE model
    BY <1>3, Zenon DEF SaveModel
  <2>3. ok
    <3>1. ok \in BOOLEAN
      OBVIOUS
    <3> HIDE DEF ok
    <3> QED BY <2>2, <3>1, AnsweredWell
  <2>4. ModelTyped(model) /\ model' = PatchModel(model, patch)
    BY <2>2, <2>3 DEF RecordsCore, ModelOK
  <2>5. /\ DOMAIN d = ModelFields /\ dialog.reset \subseteq dialog.touched
        /\ dialog.touched \subseteq ModelFields
        /\ \A f \in ModelFields \ dialog.touched : d[f] = dialog.view.fields[f]
    BY <1>1, <2>1, ModelDialogIsOK
  <2>6. ModelAsShown(dialog.view, d, dialog.touched, dialog.reset)
    <3>1. WordsAsShown(model, model', row.locality, dialog.view, d, dialog.touched, dialog.reset)
      BY <2>4, <2>5, ModelSavedAsShown
    <3> QED BY <3>1, Zenon DEF ModelAsShown, WordsAsShown
  <2> QED BY <2>1, <2>6 DEF SavedAsShown
<1>4. CASE SaveKey
  <2> DEFINE patch == KeyBody(dialog.draft)
             ok == (dialog.mode = "create") = (key = Null) /\ ~KeyRefused(patch)
  <2>1. dialog.kind = "key"
    BY <1>4 DEF SaveKey
  <2>2. Answer(ok) /\ key' = IF ok THEN patch ELSE key
    BY <1>4, Zenon DEF SaveKey
  <2>3. ok
    <3>1. ok \in BOOLEAN
      OBVIOUS
    <3> HIDE DEF ok
    <3> QED BY <2>2, <3>1, AnsweredWell
  <2> QED BY <2>1, <2>2, <2>3 DEF SavedAsShown
<1> QED BY <1>2, <1>3, <1>4, OnlySavesSave

(* What a save leaves in the table is what the editor shows, and no more   *)
(* than was touched, whatever others changed meanwhile (SavesAsShown).     *)
THEOREM SavesAsShownHolds == EditorsSpec => SavesAsShown
<1>1. RecordsCore /\ [EditorsNext]_editorsVars =>
        [dialog.at = "sent" /\ dialog'.at = "saved" => SavedAsShown]_editorsVars
  BY SavesStep
<1> QED BY <1>1, CoreHolds, PTL DEF EditorsSpec, SavesAsShown, SavedAsShown

-----------------------------------------------------------------------------
(* The invariant of the page without its list, and what every step of it   *)
(* does to the data that is shown.                                         *)
PanelInv ==
    /\ PanelTypeOK /\ BusyIsARequest /\ ShowsItsInputs /\ ShowsItsChange
    /\ SessionInOrder /\ AnswersInOrder

DataGrows ==
    /\ hubToken <= hubToken'
    /\ rev <= rev' /\ (~Mounted /\ Mounted' => query'.data = None)
    /\ Mounted /\ Mounted' /\ query.data # None =>
          query'.data # None /\ query.data.rev <= query'.data.rev

USE PanelConstants, NoneIsNoValue
USE DEF Tokens, SignedIn, Mounted, Obsolete

LEMMA PanelBegins == Init => PanelInv
<1> SUFFICES ASSUME Init PROVE PanelInv
  OBVIOUS
<1>1. 1 \in Tokens /\ None # 1
  BY PanelConstants, NoneIsNoValue DEF Tokens
<1>2. PanelTypeOK
  <2>1. session \in [token : Tokens \cup {None}, expired : BOOLEAN] /\ ~session.expired
        /\ session.token \in {None, 1}
    BY <1>1 DEF Init
  <2> QED BY <1>1, <2>1 DEF Init, PanelTypeOK, NoAction, Outcomes
<1>3. BusyIsARequest /\ ShowsItsInputs /\ ShowsItsChange /\ AnswersInOrder
  BY DEF Init, BusyIsARequest, ShowsItsInputs, ShowsItsChange, AnswersInOrder, NoAction
<1>4. SessionInOrder
  <2>1. session.token \in {None, 1} /\ ~session.expired
    BY DEF Init
  <2> QED BY <1>1, <2>1 DEF Init, SessionInOrder, NoAction
<1> QED BY <1>2, <1>3, <1>4 DEF PanelInv

-----------------------------------------------------------------------------
(* A run that starts.                                                      *)

ActionType == [at : {"idle", "sent", "back"}, token : Tokens, got : Outcomes,
               rev : 0 .. MaxRev, page : {"here", "gone", "off"}]

LateType == [token : Tokens \cup {None}, of : {"query", "reload"}, refused : BOOLEAN]

Keeps(q) ==
    /\ query' \in Queries
    /\ query'.enabled = q.enabled /\ query'.inputs = q.inputs
    /\ query'.data = q.data /\ query'.error = q.error

Starts(q) ==
    /\ query'.busy /\ query'.refreshing
    /\ run' \in Runs
    /\ run'.inputs = q.inputs /\ run'.token = session.token /\ run'.at = "sent"

LEMMA RunStarts ==
  ASSUME NEW q \in Queries, ~q.busy, session.token \in Tokens, RunOn(q)
  PROVE  Keeps(q) /\ Starts(q) /\ query'.loading = q.loading
<1>1. query' = [q EXCEPT !.busy = TRUE, !.refreshing = TRUE] /\ run' = Request(q.inputs)
  BY DEF RunOn
<1>2. Keeps(q) /\ query'.busy /\ query'.refreshing /\ query'.loading = q.loading
  BY <1>1 DEF Queries, Keeps
<1>3. q.inputs \in Inputs
  BY DEF Queries
<1>4. run' \in Runs
  BY <1>1, <1>3 DEF Request, Runs, Outcomes
<1>5. run'.inputs = q.inputs /\ run'.token = session.token /\ run'.at = "sent"
  BY <1>1 DEF Request
<1> QED BY <1>2, <1>4, <1>5 DEF Starts

LEMMA ReloadStarts ==
  ASSUME PanelInv, Mounted, Reload
  PROVE  IF query.enabled THEN Keeps(query) /\ Starts(query) /\ query'.loading = query.loading
         ELSE UNCHANGED <<query, run>>
<1> SUFFICES ASSUME query.enabled
             PROVE  Keeps(query) /\ Starts(query) /\ query'.loading = query.loading
  BY DEF Reload
<1> DEFINE q == [query EXCEPT !.busy = FALSE]
<1>1. query \in Queries /\ session.token \in Tokens
  BY DEF PanelInv, PanelTypeOK, SessionInOrder
<1>2. q \in Queries /\ ~q.busy /\ RunOn(q)
  BY <1>1 DEF Reload, Queries
<1>3. q.enabled = query.enabled /\ q.inputs = query.inputs /\ q.data = query.data
      /\ q.error = query.error /\ q.loading = query.loading
  BY <1>1 DEF Queries
<1> HIDE DEF q
<1>4. Keeps(q) /\ Starts(q) /\ query'.loading = q.loading
  BY <1>1, <1>2, RunStarts
<1> QED BY <1>3, <1>4 DEF Keeps, Starts

-----------------------------------------------------------------------------
(* Every step.                                                             *)


LEMMA HubAcceptsLoginKeeps ==
  ASSUME PanelInv, HubAcceptsLogin
  PROVE  PanelInv' /\ DataGrows
<1>1. PanelTypeOK'
  BY DEF PanelInv, PanelTypeOK, HubAcceptsLogin
<1>2. BusyIsARequest'
  BY DEF PanelInv, BusyIsARequest, HubAcceptsLogin
<1>3. ShowsItsInputs'
  BY DEF PanelInv, ShowsItsInputs, HubAcceptsLogin
<1>4. ShowsItsChange'
  BY DEF PanelInv, ShowsItsChange, HubAcceptsLogin
<1>5. SessionInOrder'
  BY DEF PanelInv, PanelTypeOK, Queries, Runs, Answers, SessionInOrder, HubAcceptsLogin
<1>6. AnswersInOrder'
  BY DEF PanelInv, AnswersInOrder, HubAcceptsLogin
<1>7. DataGrows
  BY DEF PanelInv, PanelTypeOK, Queries, Runs, Answers, DataGrows, HubAcceptsLogin
<1> QED BY <1>1, <1>2, <1>3, <1>4, <1>5, <1>6, <1>7 DEF PanelInv

LEMMA SignInKeeps ==
  ASSUME PanelInv, SignIn
  PROVE  PanelInv' /\ DataGrows
<1>1. PanelTypeOK'
  BY DEF PanelInv, PanelTypeOK, SignIn
<1>2. BusyIsARequest'
  BY DEF PanelInv, BusyIsARequest, SignIn
<1>3. ShowsItsInputs'
  BY DEF PanelInv, ShowsItsInputs, SignIn
<1>4. ShowsItsChange'
  BY DEF PanelInv, ShowsItsChange, SignIn
<1>5. SessionInOrder'
  BY DEF PanelInv, SessionInOrder, SignIn
<1>6. AnswersInOrder'
  BY DEF PanelInv, AnswersInOrder, SignIn
<1>7. DataGrows
  BY DEF PanelInv, PanelTypeOK, Queries, Runs, Answers, DataGrows, SignIn
<1> QED BY <1>1, <1>2, <1>3, <1>4, <1>5, <1>6, <1>7 DEF PanelInv

LEMMA PersonSignsOutKeeps ==
  ASSUME PanelInv, PersonSignsOut
  PROVE  PanelInv' /\ DataGrows
<1>1. PanelTypeOK'
  BY DEF PanelInv, PanelTypeOK, PersonSignsOut, SignOut, Unmount, Cleanup, Orphaned
<1>2. BusyIsARequest'
  BY DEF PanelInv, BusyIsARequest, PersonSignsOut, SignOut, Unmount, Cleanup, Orphaned
<1>3. ShowsItsInputs'
  BY DEF PanelInv, ShowsItsInputs, PersonSignsOut, SignOut, Unmount, Cleanup, Orphaned
<1>4. ShowsItsChange'
  BY DEF PanelInv, ShowsItsChange, PersonSignsOut, SignOut, Unmount, Cleanup, Orphaned
<1>5. SessionInOrder'
  BY DEF PanelInv, SessionInOrder, PersonSignsOut, SignOut, Unmount, Cleanup, Orphaned
<1>6. AnswersInOrder'
  BY DEF PanelInv, AnswersInOrder, PersonSignsOut, SignOut, Unmount, Cleanup, Orphaned
<1>7. DataGrows
  BY DEF PanelInv, PanelTypeOK, Queries, Runs, Answers, DataGrows, PersonSignsOut, SignOut, Unmount, Cleanup, Orphaned
<1> QED BY <1>1, <1>2, <1>3, <1>4, <1>5, <1>6, <1>7 DEF PanelInv

LEMMA TokenChangesKeeps ==
  ASSUME PanelInv, TokenChanges
  PROVE  PanelInv' /\ DataGrows
<1>0. \A x \in late' : /\ x.of = "reload"
                       /\ x.token # None => x.token <= hubToken'
                       /\ x.refused => Obsolete(x.token)'
  <2>1. late' = late /\ hubToken' = hubToken + 1 /\ hubToken \in Tokens
    BY DEF TokenChanges, PanelInv, PanelTypeOK
  <2>2. \A x \in late : x.token \in Tokens \cup {None}
    BY DEF PanelInv, PanelTypeOK
  <2>3. ASSUME NEW x \in late
        PROVE  /\ x.of = "reload"
               /\ x.token # None => x.token <= hubToken + 1
               /\ x.refused => (x.token # None => x.token < hubToken + 1)
    <3>1. /\ x.of = "reload"
          /\ x.token # None => x.token <= hubToken
          /\ x.refused => (x.token # None => x.token < hubToken)
      BY DEF PanelInv, SessionInOrder
    <3>2. x.token # None => x.token \in Tokens
      BY <2>2
    <3> QED BY <2>1, <3>1, <3>2
  <2> QED BY <2>1, <2>3
<1>1. PanelTypeOK'
  BY DEF PanelInv, PanelTypeOK, TokenChanges
<1>2. BusyIsARequest'
  BY DEF PanelInv, BusyIsARequest, TokenChanges
<1>3. ShowsItsInputs'
  BY DEF PanelInv, ShowsItsInputs, TokenChanges
<1>4. ShowsItsChange'
  BY DEF PanelInv, ShowsItsChange, TokenChanges
<1>5. SessionInOrder'
  BY <1>0 DEF PanelInv, PanelTypeOK, Queries, Runs, Answers, SessionInOrder, TokenChanges
<1>6. AnswersInOrder'
  BY DEF PanelInv, AnswersInOrder, TokenChanges
<1>7. DataGrows
  BY DEF PanelInv, PanelTypeOK, Queries, Runs, Answers, DataGrows, TokenChanges
<1> QED BY <1>1, <1>2, <1>3, <1>4, <1>5, <1>6, <1>7 DEF PanelInv

LEMMA HubChangesKeeps ==
  ASSUME PanelInv, HubChanges
  PROVE  PanelInv' /\ DataGrows
<1>1. PanelTypeOK'
  BY DEF PanelInv, PanelTypeOK, HubChanges
<1>2. BusyIsARequest'
  BY DEF PanelInv, BusyIsARequest, HubChanges
<1>3. ShowsItsInputs'
  BY DEF PanelInv, ShowsItsInputs, HubChanges
<1>4. ShowsItsChange'
  BY DEF PanelInv, ShowsItsChange, HubChanges
<1>5. SessionInOrder'
  BY DEF PanelInv, SessionInOrder, HubChanges
<1>6. AnswersInOrder'
  BY DEF PanelInv, PanelTypeOK, Queries, Runs, Answers, AnswersInOrder, HubChanges
<1>7. DataGrows
  BY DEF PanelInv, PanelTypeOK, Queries, Runs, Answers, DataGrows, HubChanges
<1> QED BY <1>1, <1>2, <1>3, <1>4, <1>5, <1>6, <1>7 DEF PanelInv

LEMMA LeaveKeeps ==
  ASSUME PanelInv, Leave
  PROVE  PanelInv' /\ DataGrows
<1>1. PanelTypeOK'
  BY DEF PanelInv, PanelTypeOK, Leave, Unmount, Cleanup, Orphaned
<1>2. BusyIsARequest'
  BY DEF PanelInv, BusyIsARequest, Leave, Unmount, Cleanup, Orphaned
<1>3. ShowsItsInputs'
  BY DEF PanelInv, ShowsItsInputs, Leave, Unmount, Cleanup, Orphaned
<1>4. ShowsItsChange'
  BY DEF PanelInv, ShowsItsChange, Leave, Unmount, Cleanup, Orphaned
<1>5. SessionInOrder'
  BY DEF PanelInv, SessionInOrder, Leave, Unmount, Cleanup, Orphaned
<1>6. AnswersInOrder'
  BY DEF PanelInv, AnswersInOrder, Leave, Unmount, Cleanup, Orphaned
<1>7. DataGrows
  BY DEF PanelInv, PanelTypeOK, Queries, Runs, Answers, DataGrows, Leave, Unmount, Cleanup, Orphaned
<1> QED BY <1>1, <1>2, <1>3, <1>4, <1>5, <1>6, <1>7 DEF PanelInv

LEMMA TickKeeps ==
  ASSUME PanelInv, Tick
  PROVE  PanelInv' /\ DataGrows
<1>0. Keeps(query) /\ Starts(query) /\ query'.loading = query.loading /\ query \in Queries
  BY RunStarts DEF Tick, PanelInv, PanelTypeOK, SessionInOrder
<1>1. PanelTypeOK'
  BY <1>0 DEF PanelInv, PanelTypeOK, Keeps, Starts, Tick
<1>2. BusyIsARequest'
  BY <1>0 DEF PanelInv, BusyIsARequest, Keeps, Starts, Tick
<1>3. ShowsItsInputs'
  BY <1>0 DEF PanelInv, ShowsItsInputs, Keeps, Starts, Tick
<1>4. ShowsItsChange'
  BY <1>0 DEF PanelInv, ShowsItsChange, Keeps, Starts, Tick
<1>5. SessionInOrder'
  BY <1>0 DEF PanelInv, SessionInOrder, Keeps, Starts, Tick
<1>6. AnswersInOrder'
  BY <1>0 DEF PanelInv, AnswersInOrder, Keeps, Starts, Tick
<1>7. DataGrows
  BY <1>0 DEF PanelInv, PanelTypeOK, Queries, Runs, Answers, DataGrows, Keeps, Starts, Tick
<1> QED BY <1>1, <1>2, <1>3, <1>4, <1>5, <1>6, <1>7 DEF PanelInv

LEMMA PressReloadKeeps ==
  ASSUME PanelInv, PressReload
  PROVE  PanelInv' /\ DataGrows
<1>0. IF query.enabled THEN Keeps(query) /\ Starts(query) /\ query'.loading = query.loading
      ELSE UNCHANGED <<query, run>>
  BY ReloadStarts DEF PressReload
<1>1. PanelTypeOK'
  BY <1>0 DEF PanelInv, PanelTypeOK, Keeps, Starts, PressReload
<1>2. BusyIsARequest'
  BY <1>0 DEF PanelInv, BusyIsARequest, Keeps, Starts, PressReload
<1>3. ShowsItsInputs'
  BY <1>0 DEF PanelInv, ShowsItsInputs, Keeps, Starts, PressReload
<1>4. ShowsItsChange'
  BY <1>0 DEF PanelInv, ShowsItsChange, Keeps, Starts, PressReload
<1>5. SessionInOrder'
  BY <1>0 DEF PanelInv, SessionInOrder, Keeps, Starts, PressReload
<1>6. AnswersInOrder'
  BY <1>0 DEF PanelInv, AnswersInOrder, Keeps, Starts, PressReload
<1>7. DataGrows
  BY <1>0 DEF PanelInv, PanelTypeOK, Queries, Runs, Answers, DataGrows, Keeps, Starts, PressReload
<1> QED BY <1>1, <1>2, <1>3, <1>4, <1>5, <1>6, <1>7 DEF PanelInv

LEMMA HubReadsKeeps ==
  ASSUME PanelInv, HubReads
  PROVE  PanelInv' /\ DataGrows
<1>0. /\ run' \in Runs
      /\ run'.inputs = run.inputs /\ run'.token = run.token /\ run'.at = "back"
      /\ run'.got = "ok" => run'.rev = rev
      /\ run'.got = "refused" => run.token # hubToken
      /\ UNCHANGED <<rev, hubToken, session, login, query, late, action, told>> /\ run # None
  <2>1. run \in Runs
    <3>1. run # None
      BY DEF HubReads
    <3>2. run \in Runs \cup {None}
      BY DEF PanelInv, PanelTypeOK
    <3> QED BY <3>1, <3>2, Zenon
  <2>2. PICK got \in {Verdict(run.token), "failed"} :
           run' = [run EXCEPT !.at = "back", !.got = got, !.rev = IF got = "ok" THEN rev ELSE 0]
    BY DEF HubReads
  <2>3. got \in Outcomes /\ (got = "refused" => run.token # hubToken)
    BY DEF Verdict, Outcomes
  <2>4. rev \in 0 .. MaxRev
    BY DEF PanelInv, PanelTypeOK
  <2>5. (IF got = "ok" THEN rev ELSE 0) \in 0 .. MaxRev
    BY <2>4
  <2>6. run' \in Runs
    BY <2>1, <2>2, <2>3, <2>5 DEF Runs
  <2>7. /\ run'.inputs = run.inputs /\ run'.token = run.token /\ run'.at = "back" /\ run'.got = got
        /\ got = "ok" => run'.rev = rev
    BY <2>1, <2>2 DEF Runs
  <2>8. UNCHANGED <<rev, hubToken, session, login, query, late, action, told>> /\ run # None
    BY DEF HubReads
  <2> QED BY <2>3, <2>6, <2>7, <2>8
<1>1. PanelTypeOK'
  BY <1>0 DEF PanelInv, PanelTypeOK
<1>2. BusyIsARequest'
  BY <1>0 DEF PanelInv, BusyIsARequest
<1>3. ShowsItsInputs'
  BY <1>0 DEF PanelInv, ShowsItsInputs
<1>4. ShowsItsChange'
  BY <1>0 DEF PanelInv, ShowsItsChange
<1>5. SessionInOrder'
  BY <1>0 DEF PanelInv, PanelTypeOK, Queries, Runs, Answers, SessionInOrder
<1>6. AnswersInOrder'
  BY <1>0 DEF PanelInv, PanelTypeOK, Queries, Runs, SessionInOrder, BusyIsARequest, AnswersInOrder
<1>7. DataGrows
  BY <1>0 DEF PanelInv, PanelTypeOK, Queries, Runs, Answers, DataGrows
<1> QED BY <1>1, <1>2, <1>3, <1>4, <1>5, <1>6, <1>7 DEF PanelInv

LEMMA RunSettlesKeeps ==
  ASSUME PanelInv, RunSettles
  PROVE  PanelInv' /\ DataGrows
<1>0. /\ query \in Queries /\ run \in Runs /\ query' \in Queries /\ run' = None
      /\ query'.enabled = query.enabled /\ query'.inputs = query.inputs
      /\ ~query'.busy /\ ~query'.refreshing /\ ~query'.loading
      /\ run.got = "ok" => /\ ~query'.error /\ query'.data \in Answers
                           /\ query'.data.inputs = query.inputs /\ query'.data.rev = run.rev
      /\ run.got = "failed" => query'.error /\ query'.data = query.data
      /\ run.got \in {"ok", "failed"} /\ run.at = "back"
      /\ UNCHANGED <<rev, hubToken, session, login, late, action, told>>
  <2>1. query \in Queries /\ run \in Runs /\ run.inputs = query.inputs
    BY DEF RunSettles, PanelInv, PanelTypeOK, BusyIsARequest, SessionInOrder
  <2>2. [inputs |-> run.inputs, rev |-> run.rev] \in Answers
    BY <2>1 DEF Runs, Answers
  <2> QED BY <2>1, <2>2 DEF RunSettles, Settled, Queries, Runs, Outcomes
<1>1. PanelTypeOK'
  BY <1>0 DEF PanelInv, PanelTypeOK
<1>2. BusyIsARequest'
  BY <1>0 DEF PanelInv, BusyIsARequest
<1>3. ShowsItsInputs'
  BY <1>0 DEF PanelInv, ShowsItsInputs
<1>4. ShowsItsChange'
  BY <1>0 DEF PanelInv, PanelTypeOK, Queries, Runs, Answers, Outcomes, SessionInOrder, BusyIsARequest, AnswersInOrder, ShowsItsChange
<1>5. SessionInOrder'
  BY <1>0 DEF PanelInv, SessionInOrder
<1>6. AnswersInOrder'
  BY <1>0 DEF PanelInv, AnswersInOrder
<1>7. DataGrows
  BY <1>0 DEF PanelInv, PanelTypeOK, Queries, Runs, Answers, Outcomes, SessionInOrder, BusyIsARequest, AnswersInOrder, DataGrows
<1> QED BY <1>1, <1>2, <1>3, <1>4, <1>5, <1>6, <1>7 DEF PanelInv

LEMMA RunRefusedKeeps ==
  ASSUME PanelInv, RunRefused
  PROVE  PanelInv' /\ DataGrows
<1>1. PanelTypeOK'
  BY DEF PanelInv, PanelTypeOK, RunRefused, SignOut, Unmount, Cleanup, Orphaned
<1>2. BusyIsARequest'
  BY DEF PanelInv, BusyIsARequest, RunRefused, SignOut, Unmount, Cleanup, Orphaned
<1>3. ShowsItsInputs'
  BY DEF PanelInv, ShowsItsInputs, RunRefused, SignOut, Unmount, Cleanup, Orphaned
<1>4. ShowsItsChange'
  BY DEF PanelInv, ShowsItsChange, RunRefused, SignOut, Unmount, Cleanup, Orphaned
<1>5. SessionInOrder'
  BY DEF PanelInv, SessionInOrder, RunRefused, SignOut, Unmount, Cleanup, Orphaned
<1>6. AnswersInOrder'
  BY DEF PanelInv, AnswersInOrder, RunRefused, SignOut, Unmount, Cleanup, Orphaned
<1>7. DataGrows
  BY DEF PanelInv, PanelTypeOK, Queries, Runs, Answers, DataGrows, RunRefused, SignOut, Unmount, Cleanup, Orphaned
<1> QED BY <1>1, <1>2, <1>3, <1>4, <1>5, <1>6, <1>7 DEF PanelInv

LEMMA ActKeeps ==
  ASSUME PanelInv, Act
  PROVE  PanelInv' /\ DataGrows
<1>1. PanelTypeOK'
  BY DEF PanelInv, PanelTypeOK, Queries, Runs, Answers, Outcomes, SessionInOrder, BusyIsARequest, AnswersInOrder, Act
<1>2. BusyIsARequest'
  BY DEF PanelInv, BusyIsARequest, Act
<1>3. ShowsItsInputs'
  BY DEF PanelInv, ShowsItsInputs, Act
<1>4. ShowsItsChange'
  BY DEF PanelInv, ShowsItsChange, Act
<1>5. SessionInOrder'
  BY DEF PanelInv, SessionInOrder, Act
<1>6. AnswersInOrder'
  BY DEF PanelInv, PanelTypeOK, Queries, Runs, Answers, AnswersInOrder, Act
<1>7. DataGrows
  BY DEF PanelInv, PanelTypeOK, Queries, Runs, Answers, DataGrows, Act
<1> QED BY <1>1, <1>2, <1>3, <1>4, <1>5, <1>6, <1>7 DEF PanelInv

LEMMA HubActsKeeps ==
  ASSUME PanelInv, HubActs
  PROVE  PanelInv' /\ DataGrows
<1>0. /\ action' \in ActionType
      /\ action'.token = action.token /\ action'.page = action.page /\ action'.at = "back"
      /\ action'.got = "refused" => action.token # hubToken
      /\ rev' \in {rev, rev + 1} /\ rev' \in 0 .. MaxRev
      /\ action'.rev \in {action.rev, rev'}
      /\ UNCHANGED <<hubToken, session, login, query, run, late, told>>
  <2>1. action \in ActionType /\ rev \in 0 .. MaxRev
    BY DEF PanelInv, PanelTypeOK, ActionType
  <2>2. CASE rev' = rev + 1 /\ rev < MaxRev /\ Verdict(action.token) = "ok"
             /\ \E got \in {"ok", "failed"} :
                   action' = [action EXCEPT !.at = "back", !.got = got, !.rev = rev + 1]
    <3>1. PICK got \in {"ok", "failed"} :
             action' = [action EXCEPT !.at = "back", !.got = got, !.rev = rev + 1]
      BY <2>2
    <3>2. got \in Outcomes /\ got # "refused" /\ rev + 1 \in 0 .. MaxRev
      BY <2>1, <2>2 DEF Outcomes
    <3>3. action' \in ActionType /\ action'.token = action.token /\ action'.page = action.page
          /\ action'.at = "back" /\ action'.got = got /\ action'.rev = rev + 1
      BY <2>1, <3>1, <3>2 DEF ActionType
    <3>4. UNCHANGED <<hubToken, session, login, query, run, late, told>>
      BY DEF HubActs
    <3> QED BY <2>2, <3>2, <3>3, <3>4
  <2>3. CASE UNCHANGED rev
             /\ \E got \in {"refused", "failed"} :
                   /\ got = "refused" => Verdict(action.token) = "refused"
                   /\ action' = [action EXCEPT !.at = "back", !.got = got]
    BY <2>1, <2>3 DEF HubActs, ActionType, Outcomes, Verdict
  <2> QED BY <2>2, <2>3 DEF HubActs
<1>1. PanelTypeOK'
  BY <1>0 DEF PanelInv, PanelTypeOK, ActionType
<1>2. BusyIsARequest'
  BY <1>0 DEF PanelInv, BusyIsARequest, ActionType
<1>3. ShowsItsInputs'
  BY <1>0 DEF PanelInv, ShowsItsInputs, ActionType
<1>4. ShowsItsChange'
  BY <1>0 DEF PanelInv, ShowsItsChange, ActionType
<1>5. SessionInOrder'
  BY <1>0 DEF PanelInv, PanelTypeOK, Queries, Runs, Answers, SessionInOrder, ActionType
<1>6. AnswersInOrder'
  BY <1>0 DEF PanelInv, PanelTypeOK, Queries, Runs, Answers, AnswersInOrder, ActionType
<1>7. DataGrows
  BY <1>0 DEF PanelInv, PanelTypeOK, Queries, Runs, Answers, DataGrows, ActionType
<1> QED BY <1>1, <1>2, <1>3, <1>4, <1>5, <1>6, <1>7 DEF PanelInv

LEMMA ActionSucceedsKeeps ==
  ASSUME PanelInv, ActionSucceeds
  PROVE  PanelInv' /\ DataGrows
<1>0. /\ action' = NoAction /\ NoAction \in ActionType /\ NoAction.token = 1
      /\ NoAction.page = "off" /\ NoAction.at = "idle" /\ NoAction.rev = 0
      /\ UNCHANGED <<rev, hubToken, session, login>>
  BY DEF ActionSucceeds, NoAction, ActionType, Outcomes
<1>8. action \in ActionType /\ action.rev <= rev
  BY DEF PanelInv, PanelTypeOK, AnswersInOrder, ActionType
<1>9. CASE action.page = "here"
  <2>0. /\ Mounted
        /\ IF query.enabled THEN Keeps(query) /\ Starts(query) /\ query'.loading = query.loading
           ELSE UNCHANGED <<query, run>>
        /\ told' = IF query.enabled THEN action.rev ELSE told
        /\ UNCHANGED late
    BY <1>9, ReloadStarts DEF ActionSucceeds, PanelInv, SessionInOrder
  <2>1. PanelTypeOK'
    BY <1>0, <1>8, <2>0 DEF PanelInv, PanelTypeOK, ActionType, Keeps, Starts
  <2>2. BusyIsARequest'
    BY <1>0, <1>8, <2>0 DEF PanelInv, BusyIsARequest, ActionType, Keeps, Starts
  <2>3. ShowsItsInputs'
    BY <1>0, <1>8, <2>0 DEF PanelInv, ShowsItsInputs, ActionType, Keeps, Starts
  <2>4. ShowsItsChange'
    BY <1>0, <1>8, <2>0 DEF PanelInv, ShowsItsChange, ActionType, Keeps, Starts
  <2>5. SessionInOrder'
    BY <1>0, <1>8, <2>0 DEF PanelInv, PanelTypeOK, Queries, Runs, Answers, SessionInOrder, ActionType, Keeps, Starts
  <2>6. AnswersInOrder'
    BY <1>0, <1>8, <2>0 DEF PanelInv, PanelTypeOK, Queries, Runs, Answers, AnswersInOrder, ActionType, Keeps, Starts
  <2>7. DataGrows
    BY <1>0, <1>8, <2>0 DEF PanelInv, PanelTypeOK, Queries, Runs, Answers, DataGrows, ActionType, Keeps, Starts
  <2> QED BY <2>1, <2>2, <2>3, <2>4, <2>5, <2>6, <2>7 DEF PanelInv
<1>10. CASE action.page # "here"
  <2>0. /\ UNCHANGED <<query, run, told>>
        /\ late' \subseteq late \cup {[token |-> session.token, of |-> "reload", refused |-> FALSE]}
        /\ [token |-> session.token, of |-> "reload", refused |-> FALSE] \in LateType
    BY <1>10, <1>8 DEF ActionSucceeds, PanelInv, PanelTypeOK, ActionType, LateType
  <2>1. PanelTypeOK'
    BY <1>0, <1>8, <2>0 DEF PanelInv, PanelTypeOK, ActionType, LateType
  <2>2. BusyIsARequest'
    BY <1>0, <1>8, <2>0 DEF PanelInv, BusyIsARequest, ActionType, LateType
  <2>3. ShowsItsInputs'
    BY <1>0, <1>8, <2>0 DEF PanelInv, ShowsItsInputs, ActionType, LateType
  <2>4. ShowsItsChange'
    BY <1>0, <1>8, <2>0 DEF PanelInv, ShowsItsChange, ActionType, LateType
  <2>5. SessionInOrder'
    BY <1>0, <1>8, <2>0 DEF PanelInv, PanelTypeOK, Queries, Runs, Answers, SessionInOrder, ActionType, LateType
  <2>6. AnswersInOrder'
    BY <1>0, <1>8, <2>0 DEF PanelInv, PanelTypeOK, Queries, Runs, Answers, AnswersInOrder, ActionType, LateType
  <2>7. DataGrows
    BY <1>0, <1>8, <2>0 DEF PanelInv, PanelTypeOK, Queries, Runs, Answers, DataGrows, ActionType, LateType
  <2> QED BY <2>1, <2>2, <2>3, <2>4, <2>5, <2>6, <2>7 DEF PanelInv
<1> QED BY <1>9, <1>10

LEMMA ActionFailsKeeps ==
  ASSUME PanelInv, ActionFails
  PROVE  PanelInv' /\ DataGrows
<1>1. PanelTypeOK'
  BY DEF PanelInv, PanelTypeOK, Queries, Runs, Answers, Outcomes, SessionInOrder, BusyIsARequest, AnswersInOrder, ActionFails, NoAction
<1>2. BusyIsARequest'
  BY DEF PanelInv, BusyIsARequest, ActionFails, NoAction
<1>3. ShowsItsInputs'
  BY DEF PanelInv, ShowsItsInputs, ActionFails, NoAction
<1>4. ShowsItsChange'
  BY DEF PanelInv, ShowsItsChange, ActionFails, NoAction
<1>5. SessionInOrder'
  BY DEF PanelInv, PanelTypeOK, Queries, Runs, Answers, SessionInOrder, ActionFails, NoAction
<1>6. AnswersInOrder'
  BY DEF PanelInv, PanelTypeOK, Queries, Runs, Answers, AnswersInOrder, ActionFails, NoAction
<1>7. DataGrows
  BY DEF PanelInv, PanelTypeOK, Queries, Runs, Answers, DataGrows, ActionFails, NoAction
<1> QED BY <1>1, <1>2, <1>3, <1>4, <1>5, <1>6, <1>7 DEF PanelInv

LEMMA ActionRefusedKeeps ==
  ASSUME PanelInv, ActionRefused
  PROVE  PanelInv' /\ DataGrows
<1>1. PanelTypeOK'
  BY DEF PanelInv, PanelTypeOK, Queries, Runs, Answers, Outcomes, SessionInOrder, BusyIsARequest, AnswersInOrder, ActionRefused, NoAction, Cleanup
<1>2. BusyIsARequest'
  BY DEF PanelInv, BusyIsARequest, ActionRefused, NoAction, Cleanup
<1>3. ShowsItsInputs'
  BY DEF PanelInv, ShowsItsInputs, ActionRefused, NoAction, Cleanup
<1>4. ShowsItsChange'
  BY DEF PanelInv, ShowsItsChange, ActionRefused, NoAction, Cleanup
<1>5. SessionInOrder'
  BY DEF PanelInv, PanelTypeOK, Queries, Runs, Answers, SessionInOrder, ActionRefused, NoAction, Cleanup
<1>6. AnswersInOrder'
  BY DEF PanelInv, PanelTypeOK, Queries, Runs, Answers, AnswersInOrder, ActionRefused, NoAction, Cleanup
<1>7. DataGrows
  BY DEF PanelInv, PanelTypeOK, Queries, Runs, Answers, DataGrows, ActionRefused, NoAction, Cleanup
<1> QED BY <1>1, <1>2, <1>3, <1>4, <1>5, <1>6, <1>7 DEF PanelInv

LEMMA OpenKeeps ==
  ASSUME PanelInv, NEW on \in BOOLEAN, NEW inputs \in Inputs, Open(on, inputs)
  PROVE  PanelInv' /\ DataGrows
<1> DEFINE q == NewQuery(on, inputs)
<1>8. /\ q \in Queries /\ ~q.busy /\ q.enabled = on /\ q.inputs = inputs /\ q.data = None
      /\ q.loading = on /\ q.refreshing = on /\ ~q.error
  BY DEF NewQuery, Queries
<1>9. /\ SignedIn /\ ~Mounted /\ UNCHANGED <<rev, hubToken, session, login, late, action, told>>
      /\ IF on THEN RunOn(q) ELSE query' = q /\ UNCHANGED run
  BY DEF Open
<1> HIDE DEF q
<1>10. session.token \in Tokens /\ run = None
  BY <1>9 DEF PanelInv, PanelTypeOK, SessionInOrder
<1>11. on => Keeps(q) /\ Starts(q) /\ query'.loading = q.loading
  BY <1>8, <1>9, <1>10, RunStarts
<1>0. /\ query' \in Queries /\ query'.enabled = on /\ query'.inputs = inputs /\ query'.data = None
      /\ query'.loading = on /\ query'.refreshing = on /\ ~query'.error /\ query'.busy = on
      /\ IF on THEN run' \in Runs /\ run'.inputs = inputs /\ run'.token = session.token
                    /\ run'.at = "sent"
         ELSE run' = None
      /\ SignedIn /\ ~Mounted /\ UNCHANGED <<rev, hubToken, session, login, late, action, told>>
  <2>1. CASE on
    BY <1>8, <1>9, <1>11, <2>1 DEF Keeps, Starts
  <2>2. CASE ~on
    <3>1. query' = q /\ run' = run
      BY <1>9, <2>2, Zenon
    <3> QED BY <1>8, <1>9, <1>10, <2>2, <3>1 DEF Queries
  <2> QED BY <2>1, <2>2
<1>1. PanelTypeOK'
  BY <1>0 DEF PanelInv, PanelTypeOK
<1>2. BusyIsARequest'
  BY <1>0 DEF PanelInv, BusyIsARequest
<1>3. ShowsItsInputs'
  BY <1>0 DEF PanelInv, ShowsItsInputs
<1>4. ShowsItsChange'
  BY <1>0 DEF PanelInv, ShowsItsChange
<1>5. SessionInOrder'
  BY <1>0 DEF PanelInv, SessionInOrder
<1>6. AnswersInOrder'
  BY <1>0 DEF PanelInv, AnswersInOrder
<1>7. DataGrows
  BY <1>0 DEF PanelInv, PanelTypeOK, Queries, Runs, Answers, DataGrows
<1> QED BY <1>1, <1>2, <1>3, <1>4, <1>5, <1>6, <1>7 DEF PanelInv

LEMMA ChangeKeeps ==
  ASSUME PanelInv, NEW on \in BOOLEAN, NEW inputs \in Inputs, Change(on, inputs)
  PROVE  PanelInv' /\ DataGrows
<1> DEFINE base == [Restarted(query) EXCEPT !.enabled = on, !.inputs = inputs]
           q == [base EXCEPT !.loading = TRUE]
<1>8. query \in Queries /\ session.token \in Tokens /\ Mounted
      /\ UNCHANGED <<rev, hubToken, session, login, late, action, told>>
  BY DEF Change, Cleanup, PanelInv, PanelTypeOK, SessionInOrder
<1>9. base \in Queries /\ ~base.busy /\ base.enabled = on /\ base.inputs = inputs
      /\ base.data = query.data /\ base.error = query.error
  BY <1>8 DEF Restarted, Queries
<1>10. IF ~on THEN query' = [base EXCEPT !.loading = FALSE, !.refreshing = FALSE] /\ run' = None
       ELSE RunOn(q)
  BY <1>9 DEF Change
<1> HIDE DEF base
<1>11. q \in Queries /\ ~q.busy /\ q.enabled = on /\ q.inputs = inputs
       /\ q.data = query.data /\ q.error = query.error /\ q.loading
  BY <1>9 DEF Queries
<1> HIDE DEF q
<1>12. on => Keeps(q) /\ Starts(q) /\ query'.loading = q.loading
  BY <1>8, <1>10, <1>11, RunStarts
<1>0. /\ query' \in Queries /\ query'.enabled = on /\ query'.inputs = inputs
      /\ query'.data = query.data /\ query'.error = query.error
      /\ query'.loading = on /\ query'.refreshing = on /\ query'.busy = on
      /\ IF on THEN run' \in Runs /\ run'.inputs = inputs /\ run'.token = session.token
                    /\ run'.at = "sent"
         ELSE run' = None
      /\ Mounted /\ UNCHANGED <<rev, hubToken, session, login, late, action, told>>
  <2>1. CASE on
    BY <1>8, <1>10, <1>11, <1>12, <2>1 DEF Keeps, Starts
  <2>2. CASE ~on
    BY <1>8, <1>9, <1>10, <2>2 DEF Queries
  <2> QED BY <2>1, <2>2
<1>1. PanelTypeOK'
  BY <1>0 DEF PanelInv, PanelTypeOK
<1>2. BusyIsARequest'
  BY <1>0 DEF PanelInv, BusyIsARequest
<1>3. ShowsItsInputs'
  BY <1>0 DEF PanelInv, ShowsItsInputs
<1>4. ShowsItsChange'
  BY <1>0 DEF PanelInv, ShowsItsChange
<1>5. SessionInOrder'
  BY <1>0 DEF PanelInv, SessionInOrder
<1>6. AnswersInOrder'
  BY <1>0 DEF PanelInv, AnswersInOrder
<1>7. DataGrows
  BY <1>0 DEF PanelInv, PanelTypeOK, Queries, Runs, Answers, DataGrows
<1> QED BY <1>1, <1>2, <1>3, <1>4, <1>5, <1>6, <1>7 DEF PanelInv

LEMMA LateReadKeeps ==
  ASSUME PanelInv, NEW l \in late, LateRead(l)
  PROVE  PanelInv' /\ DataGrows
<1>0. /\ late' \subseteq late \cup {[l EXCEPT !.refused = TRUE]}
      /\ UNCHANGED <<rev, hubToken, session, login, query, run, action, told>>
      /\ \A x \in late' : /\ x \in LateType /\ x.of = "reload"
                          /\ x.token # None => x.token <= hubToken
                          /\ x.refused => Obsolete(x.token)
  <2>1. /\ l \in LateType /\ l.of = "reload" /\ ~l.refused /\ late \subseteq LateType
        /\ \A x \in late : /\ x.of = "reload"
                           /\ x.token # None => x.token <= hubToken
                           /\ x.refused => Obsolete(x.token)
    <3>1. late \subseteq LateType
      BY DEF PanelInv, PanelTypeOK, LateType
    <3>2. ~l.refused
      BY DEF LateRead
    <3>3. \A x \in late : /\ x.of = "reload"
                          /\ x.token # None => x.token <= hubToken
                          /\ x.refused => Obsolete(x.token)
      BY DEF PanelInv, SessionInOrder
    <3> QED BY <3>1, <3>2, <3>3
  <2> DEFINE m == [l EXCEPT !.refused = TRUE]
  <2>2. m \in LateType /\ m.of = "reload" /\ m.token = l.token
    BY <2>1 DEF LateType
  <2>3. /\ late' \subseteq late \cup {m}
        /\ UNCHANGED <<rev, hubToken, session, login, query, run, action, told>>
        /\ Verdict(l.token) # "refused" => late' \subseteq late
    BY DEF LateRead
  <2>4. l.token = hubToken => Verdict(l.token) = "ok"
    BY DEF Verdict
  <2>5. hubToken \in Tokens
    BY DEF PanelInv, PanelTypeOK
  <2>6. l.token = hubToken => late' \subseteq late
    BY <2>3, <2>4
  <2>7. l.token # None => l.token \in Tokens /\ l.token <= hubToken
    <3>1. l.token \in Tokens \cup {None}
      BY <2>1 DEF LateType
    <3> QED BY <2>1, <3>1
  <2> HIDE DEF m
  <2>8. m \in late' => m \in late \/ l.token # hubToken
    BY <2>6
  <2>9. m \in late' /\ m \notin late => (m.token # None => m.token < hubToken)
    BY <2>2, <2>5, <2>7, <2>8
  <2>10. ASSUME NEW x \in late'
         PROVE  /\ x \in LateType /\ x.of = "reload"
                /\ x.token # None => x.token <= hubToken
                /\ x.refused => Obsolete(x.token)
    <3>1. CASE x \in late
      BY <2>1, <3>1
    <3>2. CASE x = m /\ x \notin late
      BY <2>2, <2>7, <2>9, <3>2
    <3> QED BY <2>3, <3>1, <3>2
  <2> QED BY <2>3, <2>10 DEF m
<1>1. PanelTypeOK'
  BY <1>0 DEF PanelInv, PanelTypeOK, LateType
<1>2. BusyIsARequest'
  BY <1>0 DEF PanelInv, BusyIsARequest, LateType
<1>3. ShowsItsInputs'
  BY <1>0 DEF PanelInv, ShowsItsInputs, LateType
<1>4. ShowsItsChange'
  BY <1>0 DEF PanelInv, ShowsItsChange, LateType
<1>5. SessionInOrder'
  BY <1>0 DEF PanelInv, SessionInOrder, LateType
<1>6. AnswersInOrder'
  BY <1>0 DEF PanelInv, AnswersInOrder, LateType
<1>7. DataGrows
  BY <1>0 DEF PanelInv, PanelTypeOK, Queries, Runs, Answers, DataGrows, LateType
<1> QED BY <1>1, <1>2, <1>3, <1>4, <1>5, <1>6, <1>7 DEF PanelInv

LEMMA LateRefusedKeeps ==
  ASSUME PanelInv, NEW l \in late, LateRefused(l)
  PROVE  PanelInv' /\ DataGrows
<1>1. PanelTypeOK'
  BY DEF PanelInv, PanelTypeOK, LateRefused, Orphaned
<1>2. BusyIsARequest'
  BY DEF PanelInv, BusyIsARequest, LateRefused, Orphaned
<1>3. ShowsItsInputs'
  BY DEF PanelInv, ShowsItsInputs, LateRefused, Orphaned
<1>4. ShowsItsChange'
  BY DEF PanelInv, ShowsItsChange, LateRefused, Orphaned
<1>5. SessionInOrder'
  BY DEF PanelInv, SessionInOrder, LateRefused, Orphaned
<1>6. AnswersInOrder'
  BY DEF PanelInv, AnswersInOrder, LateRefused, Orphaned
<1>7. DataGrows
  BY DEF PanelInv, PanelTypeOK, Queries, Runs, Answers, DataGrows, LateRefused, Orphaned
<1> QED BY <1>1, <1>2, <1>3, <1>4, <1>5, <1>6, <1>7 DEF PanelInv

LEMMA PanelStays ==
  ASSUME PanelInv, UNCHANGED vars
  PROVE  PanelInv'
BY DEF vars, PanelInv, PanelTypeOK, BusyIsARequest, ShowsItsInputs, ShowsItsChange,
       SessionInOrder, AnswersInOrder

(* Each of them. *)
LEMMA PanelKeeps ==
  ASSUME PanelInv, Next
  PROVE  PanelInv' /\ DataGrows
<1>1. CASE HubAcceptsLogin \/ SignIn \/ PersonSignsOut \/ TokenChanges \/ HubChanges
  BY <1>1, HubAcceptsLoginKeeps, SignInKeeps, PersonSignsOutKeeps, TokenChangesKeeps,
     HubChangesKeeps
<1>2. ASSUME NEW on \in BOOLEAN, NEW inputs \in Inputs, Open(on, inputs) \/ Change(on, inputs)
      PROVE  PanelInv' /\ DataGrows
  BY <1>2, OpenKeeps, ChangeKeeps
<1>3. CASE Leave \/ Tick \/ PressReload \/ HubReads \/ RunSettles \/ RunRefused
  BY <1>3, LeaveKeeps, TickKeeps, PressReloadKeeps, HubReadsKeeps, RunSettlesKeeps,
     RunRefusedKeeps
<1>4. CASE Act \/ HubActs \/ ActionSucceeds \/ ActionFails \/ ActionRefused
  BY <1>4, ActKeeps, HubActsKeeps, ActionSucceedsKeeps, ActionFailsKeeps, ActionRefusedKeeps
<1>5. ASSUME NEW l \in late, LateRead(l) \/ LateRefused(l)
      PROVE  PanelInv' /\ DataGrows
  BY <1>5, LateReadKeeps, LateRefusedKeeps
<1> QED BY <1>1, <1>2, <1>3, <1>4, <1>5 DEF Next

-----------------------------------------------------------------------------
(* What a page of the log holds, and what it makes of the list.            *)

USE LogConstants, NoneIsNoPage

Rows(f, n) == (1 .. n) \cap Matches[f]

LEMMA RecentRows ==
  ASSUME NEW f \in Inputs, NEW n \in Nat
  PROVE  /\ RecentLog(f, n) \subseteq Rows(f, n) /\ IsFiniteSet(RecentLog(f, n))
         /\ \A i \in RecentLog(f, n), j \in Rows(f, n) : i < j => j \in RecentLog(f, n)
         /\ Cardinality(RecentLog(f, n)) < Page => RecentLog(f, n) = Rows(f, n)
         /\ \A m \in Nat : Cardinality((m + 1 .. n) \cap Matches[f]) <= Page
               => (m + 1 .. n) \cap Matches[f] \subseteq RecentLog(f, n)
<1> DEFINE rows == Rows(f, n)
           page == RecentLog(f, n)
           From(i) == {j \in rows : j >= i}
<1>1. page = {i \in rows : Cardinality(From(i)) <= Page}
  BY DEF RecentLog, Rows
<1>2. rows \subseteq 1 .. n /\ IsFiniteSet(rows)
  <2>1. IsFiniteSet(1 .. n)
    BY FS_Interval
  <2>2. rows \subseteq 1 .. n
    BY DEF Rows
  <2> QED BY <2>1, <2>2, FS_Subset
<1>3. \A i \in rows : IsFiniteSet(From(i)) /\ Cardinality(From(i)) \in Nat
  BY <1>2, FS_Subset, FS_CardinalityType
<1> HIDE DEF rows, page
<1>4. page \subseteq rows /\ IsFiniteSet(page) /\ Cardinality(page) \in Nat
  BY <1>1, <1>2, FS_Subset, FS_CardinalityType
<1>5. ASSUME NEW i \in page, NEW j \in rows, i < j
      PROVE  j \in page
  <2>1. From(j) \in SUBSET From(i)
    <3> SUFFICES ASSUME NEW x \in rows, x >= j
                 PROVE  x >= i
      BY <1>4
    <3>1. x \in 1 .. n /\ j \in 1 .. n /\ i \in 1 .. n
      BY <1>2, <1>4
    <3> QED BY <1>5, <3>1
  <2>2. IsFiniteSet(From(i)) /\ Cardinality(From(i)) \in Nat /\ Cardinality(From(j)) \in Nat
    BY <1>3, <1>4
  <2>3. Cardinality(From(i)) <= Page
    BY <1>1
  <2>4. Cardinality(From(j)) <= Cardinality(From(i))
    <3> HIDE DEF From
    <3> QED BY <2>1, <2>2, FS_Subset
  <2> QED BY <1>1, <2>2, <2>3, <2>4
<1>6. ASSUME Cardinality(page) < Page
      PROVE  page = rows
  <2> SUFFICES ASSUME rows \ page # {}
               PROVE  FALSE
    BY <1>4
  <2>1. PICK j \in rows \ page : \A i \in rows \ page : i <= j
    <3>1. rows \ page \in SUBSET (0 .. n)
      <4>1. \A i \in 1 .. n : i \in 0 .. n
        OBVIOUS
      <4> QED BY <1>2, <4>1
    <3> DEFINE leftOut == rows \ page
    <3>2. leftOut \in SUBSET (0 .. n) /\ leftOut # {}
      BY <3>1
    <3> HIDE DEF leftOut
    <3>3. \E j \in leftOut : \A i \in leftOut : i <= j
      BY <3>2, GreatestExists
    <3> QED BY <3>3 DEF leftOut
  <2>2. From(j) \ {j} \in SUBSET page
    <3> SUFFICES ASSUME NEW x \in rows, x >= j, x # j, x \notin page
                 PROVE  FALSE
      OBVIOUS
    <3>1. x <= j
      BY <2>1
    <3>2. x \in 1 .. n /\ j \in 1 .. n
      BY <1>2
    <3> QED BY <3>1, <3>2
  <2>3. /\ IsFiniteSet(From(j)) /\ Cardinality(From(j)) \in Nat /\ j \in From(j)
        /\ ~(Cardinality(From(j)) <= Page)
    BY <1>1, <1>2, <1>3, <2>1
  <2> HIDE DEF From
  <2>4. Cardinality(From(j) \ {j}) <= Cardinality(page)
    BY <1>4, <2>2, FS_Subset
  <2>5. Cardinality(From(j) \ {j}) = Cardinality(From(j)) - 1
    BY <2>3, FS_RemoveElement
  <2> QED BY <1>4, <1>6, <2>3, <2>4, <2>5
<1>7. ASSUME NEW m \in Nat, Cardinality((m + 1 .. n) \cap Matches[f]) <= Page,
             NEW i \in (m + 1 .. n) \cap Matches[f]
      PROVE  i \in page
  <2> DEFINE new == (m + 1 .. n) \cap Matches[f]
  <2>1. IsFiniteSet(new) /\ Cardinality(new) \in Nat
    <3>1. IsFiniteSet(m + 1 .. n)
      BY FS_Interval
    <3> QED BY <3>1, FS_Subset, FS_CardinalityType
  <2>2. i \in rows
    BY DEF rows, Rows
  <2>3. From(i) \in SUBSET new
    BY <1>2 DEF rows, Rows
  <2> HIDE DEF From
  <2>4. Cardinality(From(i)) <= Cardinality(new)
    <3> HIDE DEF new
    <3> QED BY <2>1, <2>3, FS_Subset
  <2> QED BY <1>1, <1>3, <1>7, <2>1, <2>2, <2>4
<1> QED BY <1>4, <1>5, <1>6, <1>7 DEF rows, page

(* The newest page, joined with the rows before it. *)
LEMMA NewerPage ==
  ASSUME NEW f \in Inputs, NEW r \in Nat, NEW rows \in SUBSET Rows(f, r),
         rows # {} => Cardinality((Max(rows) + 1 .. r) \cap Matches[f]) <= Page,
         Gapless(rows, Matches[f])
  PROVE  LET new == rows \cup RecentLog(f, r)
         IN  /\ Gapless(new, Matches[f])
             /\ rows # {} /\ ReachesDown(rows, Matches[f]) => ReachesDown(new, Matches[f])
             /\ Cardinality(new) < Page /\ (Cardinality(rows) < Page => ReachesDown(rows, Matches[f]))
                   => ReachesDown(new, Matches[f])
<1> DEFINE all == Matches[f]
           page == RecentLog(f, r)
           new == rows \cup page
<1>1. /\ page \subseteq Rows(f, r) /\ IsFiniteSet(page)
      /\ \A i \in page, j \in Rows(f, r) : i < j => j \in page
      /\ Cardinality(page) < Page => page = Rows(f, r)
      /\ \A m \in Nat : Cardinality((m + 1 .. r) \cap all) <= Page
            => (m + 1 .. r) \cap all \subseteq page
  BY RecentRows
<1>2. rows \subseteq 1 .. r /\ page \subseteq 1 .. r /\ rows \subseteq all /\ page \subseteq all
      /\ all \subseteq Nat
  BY <1>1 DEF Rows
<1>3. rows # {} => \E m \in rows : (\A i \in rows : i <= m) /\ (m + 1 .. r) \cap all \subseteq page
  <2> SUFFICES ASSUME rows # {}
               PROVE  \E m \in rows : (\A i \in rows : i <= m) /\ (m + 1 .. r) \cap all \subseteq page
    OBVIOUS
  <2>1. \E m \in rows : \A i \in rows : i <= m
    <3>1. rows \in SUBSET (0 .. r)
      BY <1>2
    <3> QED BY <3>1, GreatestExists
  <2>2. Max(rows) \in rows /\ \A i \in rows : i <= Max(rows)
    BY <1>2, <2>1 DEF Max
  <2>3. Max(rows) \in Nat
    BY <1>2, <2>2
  <2>4. (Max(rows) + 1 .. r) \cap all \subseteq page
    BY <1>1, <2>3
  <2> QED BY <2>2, <2>4
<1>4. \A j \in all : (\E i \in page : i < j) /\ j <= r => j \in page
  BY <1>1, <1>2 DEF Rows
<1> HIDE DEF all, page
<1>5. Gapless(new, all)
  <2> SUFFICES ASSUME NEW i \in new, NEW k \in new, NEW j \in all, i < j, j < k
               PROVE  j \in new
    BY DEF Gapless
  <2>1. j <= r
    BY <1>2
  <2>2. CASE i \in page
    BY <1>4, <2>1, <2>2
  <2>3. CASE i \in rows
    <3>1. PICK m \in rows : (\A x \in rows : x <= m) /\ (m + 1 .. r) \cap all \subseteq page
      BY <1>3, <2>3
    <3>2. CASE j < m
      BY <1>2, <2>3, <3>1, <3>2 DEF Gapless, all
    <3>3. CASE j >= m
      BY <1>2, <2>1, <3>1, <3>3
    <3> QED BY <1>2, <3>2, <3>3
  <2> QED BY <2>2, <2>3
<1>6. ASSUME rows # {}, ReachesDown(rows, all)
      PROVE  ReachesDown(new, all)
  <2> SUFFICES ASSUME NEW k \in new, NEW j \in all, 1 <= j, j < k
               PROVE  j \in new
    BY DEF ReachesDown
  <2>1. PICK m \in rows : (\A x \in rows : x <= m) /\ (m + 1 .. r) \cap all \subseteq page
    BY <1>3, <1>6
  <2>2. CASE j < m
    BY <1>2, <1>6, <2>1, <2>2 DEF ReachesDown
  <2>3. CASE j >= m
    BY <1>2, <2>1, <2>3
  <2> QED BY <1>2, <2>2, <2>3
<1>7. ASSUME Cardinality(new) < Page, Cardinality(rows) < Page => ReachesDown(rows, all)
      PROVE  ReachesDown(new, all)
  <2>1. IsFiniteSet(rows)
    <3>1. IsFiniteSet(1 .. r)
      BY FS_Interval
    <3> QED BY <1>2, <3>1, FS_Subset
  <2>2. IsFiniteSet(new)
    BY <1>1, <2>1, FS_Union DEF page
  <2>3. /\ Cardinality(new) \in Nat /\ Cardinality(rows) \in Nat /\ Cardinality(page) \in Nat
        /\ Cardinality(rows) <= Cardinality(new) /\ Cardinality(page) <= Cardinality(new)
    BY <2>2, FS_Subset, FS_CardinalityType
  <2>4. page = Rows(f, r) /\ ReachesDown(rows, all)
    BY <1>1, <1>7, <2>3 DEF page
  <2> SUFFICES ASSUME NEW k \in new, NEW j \in all, 1 <= j, j < k
               PROVE  j \in new
    BY DEF ReachesDown
  <2>5. j \in Rows(f, r)
    BY <1>2 DEF Rows, all
  <2> QED BY <2>4, <2>5
<1> QED BY <1>5, <1>6, <1>7 DEF all, page

(* The page before a row of the list. *)
LEMMA OlderPage ==
  ASSUME NEW f \in Inputs, NEW r \in Nat, NEW rows \in SUBSET Rows(f, r), NEW b \in rows,
         Gapless(rows, Matches[f])
  PROVE  LET page == RecentLog(f, b - 1)
             new == rows \cup page
         IN  /\ Gapless(new, Matches[f]) /\ new \subseteq Rows(f, r) /\ new # {}
             /\ Cardinality(page) < Page => ReachesDown(new, Matches[f])
             /\ Cardinality(new) < Page => ReachesDown(new, Matches[f])
<1> DEFINE all == Matches[f]
           page == RecentLog(f, b - 1)
           new == rows \cup page
<1>0. b \in 1 .. r /\ b - 1 \in Nat
  BY DEF Rows
<1>1. /\ page \subseteq Rows(f, b - 1) /\ IsFiniteSet(page)
      /\ \A i \in page, j \in Rows(f, b - 1) : i < j => j \in page
      /\ Cardinality(page) < Page => page = Rows(f, b - 1)
  BY <1>0, RecentRows
<1>2. rows \subseteq 1 .. r /\ page \subseteq 1 .. (b - 1) /\ rows \subseteq all
      /\ page \subseteq all /\ all \subseteq Nat
  BY <1>1 DEF Rows
<1> HIDE DEF page
<1>3. Gapless(new, all)
  <2> SUFFICES ASSUME NEW i \in new, NEW k \in new, NEW j \in all, i < j, j < k
               PROVE  j \in new
    BY DEF Gapless
  <2>1. i \in Nat /\ j \in Nat /\ k \in Nat /\ 1 <= j
    BY <1>2
  <2>2. CASE j < b
    <3>1. CASE i \in page
      BY <1>0, <1>1, <1>2, <2>1, <2>2, <3>1 DEF Rows
    <3>2. CASE i \in rows
      BY <2>2, <3>2 DEF Gapless
    <3> QED BY <3>1, <3>2
  <2>3. CASE j > b
    <3>1. k \in rows
      BY <1>0, <1>2, <2>1, <2>3
    <3> QED BY <2>3, <3>1 DEF Gapless
  <2> QED BY <1>0, <2>1, <2>2, <2>3
<1>4. new \subseteq Rows(f, r)
  BY <1>0, <1>2 DEF Rows
<1>5. ASSUME Cardinality(page) < Page
      PROVE  ReachesDown(new, all)
  <2> SUFFICES ASSUME NEW k \in new, NEW j \in all, 1 <= j, j < k
               PROVE  j \in new
    BY DEF ReachesDown
  <2>1. j \in Nat /\ k \in Nat
    BY <1>2
  <2>2. CASE j < b
    <3>1. j \in Rows(f, b - 1)
      BY <1>0, <2>1, <2>2 DEF Rows
    <3> QED BY <1>1, <1>5, <3>1
  <2>3. CASE j > b
    <3>1. k \in rows
      BY <1>0, <1>2, <2>1, <2>3
    <3> QED BY <2>3, <3>1 DEF Gapless
  <2> QED BY <1>0, <2>1, <2>2, <2>3
<1>6. ASSUME Cardinality(new) < Page
      PROVE  ReachesDown(new, all)
  <2>1. IsFiniteSet(rows)
    <3>1. IsFiniteSet(1 .. r)
      BY FS_Interval
    <3> QED BY <1>2, <3>1, FS_Subset
  <2>2. IsFiniteSet(new)
    BY <1>1, <2>1, FS_Union
  <2>3. /\ Cardinality(new) \in Nat /\ Cardinality(page) \in Nat
        /\ Cardinality(page) <= Cardinality(new)
    BY <2>2, FS_Subset, FS_CardinalityType
  <2> QED BY <1>5, <1>6, <2>3
<1> QED BY <1>3, <1>4, <1>5, <1>6 DEF page

-----------------------------------------------------------------------------
(* The list.                                                               *)

ListTypeOK ==
    /\ seen \in [filter : Inputs \cup {None}, rows : SUBSET (1 .. rev), exhausted : BOOLEAN]
    /\ older \in OlderPages \cup {None}
    /\ loading \in BOOLEAN /\ patchy \in BOOLEAN

ListInv == ListTypeOK /\ ListInOrder /\ ListIsWhole

LEMMA InTwoParts == PageInv <=> PanelInv /\ ListInv
BY DEF PageInv, QueryInv, TypeOK, PanelInv, ListInv, ListTypeOK

LEMMA NothingIsWhole ==
  /\ NothingSeen \in [filter : Inputs \cup {None}, rows : SUBSET (1 .. rev), exhausted : BOOLEAN]
  /\ NothingSeen.rows = {} /\ NothingSeen.filter = None /\ ~NothingSeen.exhausted
  /\ \A all : Gapless({}, all) /\ ReachesDown({}, all)
BY DEF NothingSeen, Gapless, ReachesDown

LEMMA ListBegins == LogInit => ListInv
<1> SUFFICES ASSUME LogInit PROVE ListInv
  OBVIOUS
<1>1. seen = NothingSeen /\ older = None /\ loading = FALSE /\ patchy = FALSE
  BY DEF LogInit
<1>2. ListTypeOK
  BY <1>1, NothingIsWhole DEF ListTypeOK
<1>3. ListInOrder
  BY <1>1, NothingIsWhole DEF ListInOrder
<1>4. ListIsWhole
  BY <1>1, NothingIsWhole DEF ListIsWhole
<1> QED BY <1>2, <1>3, <1>4 DEF ListInv

(* The rows of the list belong to its filter and to the answer on screen. *)
LEMMA RowsOfTheList ==
  ASSUME PanelInv, ListInv, seen.rows # {}
  PROVE  /\ Mounted /\ seen.filter \in Inputs /\ query.data \in Answers
         /\ query.data.rev \in Nat /\ query.data.rev <= rev
         /\ seen.rows \in SUBSET Rows(seen.filter, query.data.rev)
<1>1. Mounted /\ seen.filter \in Inputs
  BY DEF ListInv, ListTypeOK, ListInOrder, NothingSeen
<1>2. query \in Queries /\ query.data # None
  BY <1>1 DEF PanelInv, PanelTypeOK, ListInv, ListInOrder
<1>3. query.data \in Answers
  BY <1>2 DEF Queries
<1>4. query.data.rev \in Nat /\ query.data.rev <= rev
  BY <1>1, <1>2, <1>3 DEF Answers, PanelInv, AnswersInOrder
<1>5. seen.rows \in SUBSET Rows(seen.filter, query.data.rev)
  BY DEF ListInv, ListInOrder, Rows
<1> QED BY <1>1, <1>3, <1>4, <1>5

(* The effects of the page keep the list whole. *)
LEMMA FollowKeeps ==
  ASSUME PanelInv, PanelInv', ListInv, DataGrows, Follow
  PROVE  ListInv'
<1> DEFINE q == query'
           fresh == q # None /\ q.data # None /\ q.data.inputs = q.inputs
           restarts == fresh /\ seen.filter # q.inputs
           before == IF restarts THEN {} ELSE seen.rows
           page == RecentLog(q.inputs, q.data.rev)
<1>1. /\ q = None => seen' = NothingSeen /\ patchy' = FALSE
      /\ q # None /\ ~fresh => UNCHANGED <<seen, patchy>>
      /\ fresh => /\ seen' = [filter |-> q.inputs, exhausted |-> KeepsExhausted(q.inputs),
                              rows |-> before \cup page]
                  /\ patchy' = (~restarts /\ (patchy \/ Swamped(q.inputs, q.data.rev)))
  BY DEF Follow, MergeLog
<1>2. older' = IF older = None THEN None
               ELSE [older EXCEPT !.page = @ /\ q # None, !.same = @ /\ ~restarts]
  BY DEF Follow
<1>3. loading' \in BOOLEAN
  BY DEF Follow
<1>4. q \in Queries \cup {None} /\ rev' \in Nat /\ rev \in Nat /\ rev <= rev'
      /\ (q # None => q.inputs \in Inputs /\ q.data \in Answers \cup {None})
  BY DEF PanelInv, PanelTypeOK, Queries, DataGrows
<1>5. q # None /\ q.data # None
        => q.data.rev \in Nat /\ q.data.rev <= rev'
  BY <1>4 DEF Answers, PanelInv, AnswersInOrder
<1>6. Mounted' <=> q # None
  OBVIOUS
<1>7. /\ ~Mounted /\ q # None => q.data = None
      /\ Mounted /\ q # None /\ query.data # None => q.data # None /\ query.data.rev <= q.data.rev
  BY DEF DataGrows
<1>8. seen.rows \in SUBSET (1 .. rev) /\ seen.exhausted \in BOOLEAN /\ patchy \in BOOLEAN
      /\ seen.filter \in Inputs \cup {None}
  BY DEF ListInv, ListTypeOK
<1>9. ~Mounted => seen = NothingSeen
  BY DEF ListInv, ListInOrder
<1> HIDE DEF q
(* Rows that stay are still rows of the answer on screen. *)
<1>10. ASSUME seen.rows # {}, q # None
       PROVE  /\ q.data # None /\ seen.filter \in Inputs
              /\ seen.rows \in SUBSET Rows(seen.filter, q.data.rev)
  <2>1. /\ Mounted /\ query.data # None /\ query.data.rev \in Nat /\ seen.filter \in Inputs
        /\ seen.rows \in SUBSET Rows(seen.filter, query.data.rev)
    BY <1>10, RowsOfTheList, NoneIsNoValue
  <2>2. q.data # None /\ query.data.rev <= q.data.rev
    BY <1>7, <1>10, <2>1
  <2>3. Rows(seen.filter, query.data.rev) \subseteq Rows(seen.filter, q.data.rev)
    BY <1>5, <1>10, <2>1, <2>2 DEF Rows
  <2> QED BY <2>1, <2>2, <2>3
<1>11. ASSUME fresh
       PROVE  /\ page \subseteq Rows(q.inputs, q.data.rev)
              /\ before \in SUBSET Rows(q.inputs, q.data.rev)
              /\ before # {} => before = seen.rows /\ seen.filter = q.inputs
              /\ q.data.rev \in Nat /\ q.data.rev <= rev' /\ q.inputs \in Inputs
  <2>1. q.data.rev \in Nat /\ q.data.rev <= rev' /\ q.inputs \in Inputs
    BY <1>4, <1>5, <1>11
  <2>2. page \subseteq Rows(q.inputs, q.data.rev)
    BY <2>1, RecentRows
  <2>3. before # {} => before = seen.rows /\ seen.filter = q.inputs
    BY <1>11
  <2> QED BY <1>10, <1>11, <2>1, <2>2, <2>3
(* The types. *)
<1>12. ListTypeOK'
  <2>1. seen' \in [filter : Inputs \cup {None}, rows : SUBSET (1 .. rev'), exhausted : BOOLEAN]
    <3>1. CASE q = None
      <4>1. NothingSeen \in [filter : Inputs \cup {None}, rows : SUBSET (1 .. rev'),
                            exhausted : BOOLEAN]
        BY DEF NothingSeen
      <4> QED BY <1>1, <3>1, <4>1
    <3>2. CASE q # None /\ ~fresh
      <4>1. seen' = seen /\ seen \in [filter : Inputs \cup {None}, rows : SUBSET (1 .. rev),
                                      exhausted : BOOLEAN]
        BY <1>1, <3>2 DEF ListInv, ListTypeOK
      <4>2. 1 .. rev \subseteq 1 .. rev'
        BY <1>4
      <4> QED BY <4>1, <4>2
    <3>3. CASE fresh
      <4>1. before \cup page \subseteq 1 .. rev'
        BY <1>4, <1>11, <3>3 DEF Rows
      <4>2. KeepsExhausted(q.inputs) \in BOOLEAN /\ q.inputs \in Inputs
        BY <1>8, <1>11, <3>3 DEF KeepsExhausted
      <4> HIDE DEF before, page
      <4> QED BY <1>1, <3>3, <4>1, <4>2
    <3> QED BY <3>1, <3>2, <3>3
  <2>2. older' \in OlderPages \cup {None}
    BY <1>2 DEF ListInv, ListTypeOK, OlderPages
  <2>3. patchy' \in BOOLEAN
    BY <1>1, <1>8
  <2> QED BY <1>3, <2>1, <2>2, <2>3 DEF ListTypeOK
<1>13. ListInOrder'
  <2>1. ~Mounted' => seen' = NothingSeen
    BY <1>1, <1>6
  <2>2. ASSUME (seen.rows)' # {}
        PROVE  /\ seen'.filter # None /\ seen'.rows \subseteq Matches[seen'.filter]
               /\ q.data # None /\ seen'.rows \subseteq 1 .. q.data.rev
    <3>1. CASE q = None
      BY <1>1, <2>2, <3>1 DEF NothingSeen
    <3>2. CASE q # None /\ ~fresh
      BY <1>1, <1>10, <2>2, <3>2 DEF Rows
    <3>3. CASE fresh
      <4>1. before \cup page \subseteq Matches[q.inputs] /\ before \cup page \subseteq 1 .. q.data.rev
        BY <1>11, <3>3 DEF Rows
      <4>2. q.inputs # None
        BY <1>11, <3>3
      <4> HIDE DEF before, page
      <4> QED BY <1>1, <3>3, <4>1, <4>2
    <3> QED BY <3>1, <3>2, <3>3
  <2>3. ASSUME older' # None
        PROVE  /\ older'.token <= hubToken'
               /\ older'.at = "back" /\ older'.got = "refused" => (older'.token # None => older'.token < hubToken')
               /\ older'.at = "back" /\ older'.got = "ok" => older'.rows = OlderRows(older')
               /\ older'.page => /\ Mounted' /\ q.data # None /\ older'.before <= q.data.rev
               /\ older'.page /\ older'.same
                    => seen'.filter = older'.filter /\ older'.before \in seen'.rows
    <3>1. older \in OlderPages
      BY <1>2, <2>3 DEF ListInv, ListTypeOK
    <3>2. /\ older'.filter = older.filter /\ older'.before = older.before
          /\ older'.token = older.token /\ older'.at = older.at /\ older'.got = older.got
          /\ older'.rows = older.rows
          /\ older'.page => older.page /\ q # None
          /\ older'.same => older.same /\ ~restarts
      BY <1>2, <3>1 DEF OlderPages
    <3>3. /\ older.token <= hubToken /\ older.token \in Nat /\ older.token # None /\ hubToken \in Nat /\ hubToken' \in Nat
          /\ hubToken <= hubToken'
      <4>1. older.token \in Tokens /\ hubToken \in Tokens /\ hubToken' \in Tokens
        BY <3>1 DEF OlderPages, PanelInv, PanelTypeOK
      <4>2. older.token <= hubToken
        BY <3>1 DEF ListInv, ListInOrder
      <4>3. hubToken <= hubToken'
        BY DEF DataGrows
      <4> QED BY <4>1, <4>2, <4>3
    <3>4. older.at = "back" /\ older.got = "refused" => older.token < hubToken
      BY <3>1, <3>3 DEF ListInv, ListInOrder
    <3>5. older.at = "back" /\ older.got = "ok" => older.rows = OlderRows(older)
      BY <3>1 DEF ListInv, ListInOrder
    <3>6. /\ older.page => Mounted /\ query.data # None /\ older.before <= query.data.rev
          /\ older.page /\ older.same => seen.filter = older.filter /\ older.before \in seen.rows
      BY <3>1 DEF ListInv, ListInOrder
    <3>7. ASSUME older'.page
          PROVE  Mounted' /\ q.data # None /\ older'.before <= q.data.rev
      <4>1. Mounted /\ query.data # None /\ older.before <= query.data.rev /\ q # None
        BY <3>2, <3>6, <3>7
      <4>2. q.data # None /\ query.data.rev <= q.data.rev
        BY <1>7, <4>1
      <4>3. query.data.rev \in Nat /\ q.data.rev \in Nat /\ older.before \in Nat
        <5>1. query.data \in Answers /\ older.before \in Nat
          BY <3>1, <4>1 DEF OlderPages, PanelInv, PanelTypeOK, Queries
        <5> QED BY <1>5, <4>1, <4>2, <5>1 DEF Answers
      <4> QED BY <1>6, <3>2, <4>1, <4>2, <4>3
    <3>8. ASSUME older'.page, older'.same
          PROVE  seen'.filter = older'.filter /\ older'.before \in seen'.rows
      <4>1. /\ q # None /\ ~restarts
            /\ seen.filter = older.filter /\ older.before \in seen.rows
        BY <3>2, <3>6, <3>8
      <4>2. CASE ~fresh
        BY <1>1, <3>2, <4>1, <4>2
      <4>3. CASE fresh
        <5>1. seen'.filter = q.inputs /\ seen'.rows = before \cup page
          BY <1>1, <4>3
        <5>2. before = seen.rows /\ seen.filter = q.inputs
          BY <4>1, <4>3
        <5> QED BY <3>2, <4>1, <5>1, <5>2
      <4> QED BY <4>2, <4>3
    <3>9. OlderRows(older') = OlderRows(older)
      BY <3>2 DEF OlderRows
    <3> QED BY <3>2, <3>3, <3>4, <3>5, <3>7, <3>8, <3>9
  <2> QED BY <1>6, <2>1, <2>2, <2>3 DEF ListInOrder, q
<1>14. ListIsWhole'
  <2> SUFFICES ASSUME ~patchy'
               PROVE  /\ Gapless(seen'.rows, Matches[seen'.filter])
                      /\ seen'.exhausted => seen'.rows # {}
                      /\ seen'.exhausted \/ Cardinality(seen'.rows) < Page
                            => ReachesDown(seen'.rows, Matches[seen'.filter])
    BY DEF ListIsWhole, Gapless, ReachesDown
  <2>1. CASE q = None
    BY <1>1, <2>1 DEF NothingSeen, Gapless, ReachesDown
  <2>2. CASE q # None /\ ~fresh
    BY <1>1, <2>2 DEF ListInv, ListIsWhole
  <2>3. CASE fresh
    <3> DEFINE all == Matches[q.inputs]
    <3>1. /\ page \subseteq Rows(q.inputs, q.data.rev)
          /\ before \in SUBSET Rows(q.inputs, q.data.rev)
          /\ before # {} => before = seen.rows /\ seen.filter = q.inputs
          /\ q.data.rev \in Nat /\ q.inputs \in Inputs
      BY <1>11, <2>3
    <3>2. /\ seen'.filter = q.inputs /\ seen'.rows = before \cup page
          /\ seen'.exhausted = KeepsExhausted(q.inputs)
          /\ restarts \/ (~patchy /\ ~Swamped(q.inputs, q.data.rev))
      <4>1. seen' = [filter |-> q.inputs, exhausted |-> KeepsExhausted(q.inputs),
                     rows |-> before \cup page]
        BY <1>1, <2>3
      <4>2. ~(~restarts /\ (patchy \/ Swamped(q.inputs, q.data.rev)))
        <5> HIDE DEF fresh, restarts
        <5> QED BY <1>1, <2>3, Zenon
      <4> HIDE DEF before, page
      <4> QED BY <4>1, <4>2
    <3>3. before # {} => Cardinality((Max(before) + 1 .. q.data.rev) \cap all) <= Page
      <4> SUFFICES ASSUME before # {}
                   PROVE  Cardinality((Max(before) + 1 .. q.data.rev) \cap all) <= Page
        OBVIOUS
      <4>1. ~restarts /\ before = seen.rows /\ seen.filter = q.inputs
        BY <3>1
      <4>2. ~(Cardinality((Max(before) + 1 .. q.data.rev) \cap all) > Page)
        BY <3>2, <4>1 DEF Swamped
      <4>3. Cardinality((Max(before) + 1 .. q.data.rev) \cap all) \in Nat
        <5>1. \A m \in Nat : Cardinality((m + 1 .. q.data.rev) \cap all) \in Nat
          <6> SUFFICES ASSUME NEW m \in Nat
                       PROVE  Cardinality((m + 1 .. q.data.rev) \cap all) \in Nat
            OBVIOUS
          <6>1. IsFiniteSet(m + 1 .. q.data.rev)
            BY <3>1, FS_Interval
          <6> QED BY <6>1, FS_Subset, FS_CardinalityType
        <5>2. Max(before) \in Nat
          <6>1. before \in SUBSET (0 .. q.data.rev)
            BY <3>1 DEF Rows
          <6> HIDE DEF before
          <6>2. \E m \in before : \A i \in before : i <= m
            BY <3>1, <6>1, GreatestExists
          <6>3. Max(before) \in before
            BY <3>1, <6>1, <6>2 DEF Max
          <6> QED BY <3>1, <6>1, <6>3
        <5> HIDE DEF before, all
        <5> QED BY <5>1, <5>2
      <4> HIDE DEF before, all
      <4> QED BY <4>2, <4>3
    <3>4. Gapless(before, all)
      BY <3>1, <3>2 DEF Gapless, ListInv, ListIsWhole
    <3>5. Cardinality(before) < Page => ReachesDown(before, all)
      BY <3>1, <3>2 DEF ReachesDown, ListInv, ListIsWhole
    <3>6. KeepsExhausted(q.inputs) => before # {} /\ ReachesDown(before, all)
      BY <3>1, <3>2 DEF KeepsExhausted, ListInv, ListIsWhole
    <3> HIDE DEF before
    <3>7. LET new == before \cup page
          IN  /\ Gapless(new, all)
              /\ before # {} /\ ReachesDown(before, all) => ReachesDown(new, all)
              /\ Cardinality(new) < Page /\ (Cardinality(before) < Page => ReachesDown(before, all))
                    => ReachesDown(new, all)
      BY <3>1, <3>3, <3>4, NewerPage
    <3> HIDE DEF page, all
    <3>8. KeepsExhausted(q.inputs) => ReachesDown(before \cup page, all) /\ before \cup page # {}
      BY <3>6, <3>7
    <3>9. Cardinality(before \cup page) < Page => ReachesDown(before \cup page, all)
      BY <3>5, <3>7
    <3> QED BY <3>2, <3>7, <3>8, <3>9 DEF all
  <2> QED BY <2>1, <2>2, <2>3
<1> QED BY <1>12, <1>13, <1>14 DEF ListInv

-----------------------------------------------------------------------------
(* The calls for older pages.                                              *)

LEMMA LoadOlderKeeps ==
  ASSUME PanelInv, ListInv, LoadOlder
  PROVE  ListInv'
<1>1. /\ Mounted /\ seen.filter = query.inputs /\ Shown = seen.rows /\ seen.rows # {}
      /\ UNCHANGED <<vars, seen, patchy>> /\ loading' = TRUE
      /\ older' = [filter |-> query.inputs, before |-> Min(seen.rows), token |-> session.token,
                   at |-> "sent", got |-> "ok", rows |-> {}, page |-> TRUE, same |-> TRUE]
  BY DEF LoadOlder, Shown
<1>2. UNCHANGED <<rev, hubToken, query>>
  BY <1>1 DEF vars
<1>3. /\ query.data # None /\ query.data.rev \in Nat /\ query.data.rev <= rev /\ rev \in 0 .. MaxRev
      /\ seen.rows \in SUBSET (1 .. query.data.rev)
      /\ query.inputs \in Inputs /\ session.token \in Tokens /\ session.token <= hubToken
  <2>1. /\ query.data \in Answers /\ query.data.rev \in Nat /\ query.data.rev <= rev
        /\ seen.rows \in SUBSET Rows(seen.filter, query.data.rev)
    BY <1>1, RowsOfTheList
  <2>2. rev \in 0 .. MaxRev /\ query.inputs \in Inputs /\ session.token \in Tokens
        /\ session.token <= hubToken
    BY <1>1 DEF PanelInv, PanelTypeOK, Queries, SessionInOrder
  <2> QED BY <2>1, <2>2 DEF Rows
<1>4. Min(seen.rows) \in seen.rows
  <2>1. seen.rows \in SUBSET Nat
    BY <1>3
  <2>2. \E m \in seen.rows : \A i \in seen.rows : m <= i
    BY <1>1, <2>1, LeastExists
  <2> QED BY <2>1, <2>2 DEF Min
<1> DEFINE b == Min(seen.rows)
<1>5. b \in 1 .. MaxRev /\ b <= query.data.rev
  BY <1>3, <1>4
<1> HIDE DEF b
<1>6. older' \in OlderPages
  BY <1>1, <1>3, <1>5 DEF OlderPages, Outcomes, b
<1>7. ListTypeOK'
  BY <1>1, <1>2, <1>6 DEF ListInv, ListTypeOK
<1>8. ListInOrder'
  <2>1. /\ older'.token = session.token /\ older'.at = "sent" /\ older'.before = b
        /\ older'.filter = seen.filter
    BY <1>1 DEF b
  <2>2. b \in seen.rows
    BY <1>4 DEF b
  <2> QED BY <1>1, <1>2, <1>3, <1>5, <2>1, <2>2 DEF ListInv, ListInOrder
<1>9. ListIsWhole'
  BY <1>1 DEF ListInv, ListIsWhole, Gapless, ReachesDown
<1> QED BY <1>7, <1>8, <1>9 DEF ListInv

LEMMA OlderFound ==
  ASSUME NEW o \in OlderPages
  PROVE  OlderRows(o) \in SUBSET (1 .. MaxRev) /\ OlderRows(o) \in SUBSET Rows(o.filter, o.before - 1)
<1>1. o.filter \in Inputs /\ o.before \in 1 .. MaxRev
  BY DEF OlderPages
<1>2. o.before - 1 \in Nat /\ o.before - 1 <= MaxRev
  BY <1>1
<1>3. RecentLog(o.filter, o.before - 1) \subseteq Rows(o.filter, o.before - 1)
  BY <1>1, <1>2, RecentRows
<1> QED BY <1>2, <1>3 DEF OlderRows, Rows

LEMMA HubReadsOlderKeeps ==
  ASSUME PanelInv, ListInv, HubReadsOlder
  PROVE  ListInv'
<1>1. older \in OlderPages /\ UNCHANGED <<vars, seen, loading, patchy>>
  BY DEF HubReadsOlder, ListInv, ListTypeOK
<1>2. UNCHANGED <<rev, hubToken, query, seen, loading, patchy>>
  BY <1>1 DEF vars
<1>3. PICK got \in {Verdict(older.token), "failed"} :
         older' = [older EXCEPT !.at = "back", !.got = got,
                     !.rows = IF got = "ok" THEN OlderRows(older) ELSE {}]
  BY DEF HubReadsOlder
<1>4. got \in Outcomes /\ (got = "refused" => older.token # hubToken)
  BY DEF Verdict, Outcomes
<1>5. (IF got = "ok" THEN OlderRows(older) ELSE {}) \in SUBSET (1 .. MaxRev)
  BY <1>1, OlderFound
<1>6. older' \in OlderPages
  BY <1>1, <1>3, <1>4, <1>5 DEF OlderPages
<1>7. /\ older'.filter = older.filter /\ older'.before = older.before /\ older'.token = older.token
      /\ older'.page = older.page /\ older'.same = older.same
      /\ older'.at = "back" /\ older'.got = got
      /\ got = "ok" => older'.rows = OlderRows(older)
  BY <1>1, <1>3 DEF OlderPages
<1>8. ListTypeOK'
  BY <1>2, <1>6 DEF ListInv, ListTypeOK
<1>9. ListInOrder'
  <2>1. OlderRows(older') = OlderRows(older)
    BY <1>7 DEF OlderRows
  <2>2. older.token \in Tokens /\ hubToken \in Tokens
    BY <1>1 DEF OlderPages, PanelInv, PanelTypeOK
  <2>3. older.token <= hubToken /\ (got = "refused" => older.token < hubToken)
    BY <1>1, <1>4, <2>2 DEF ListInv, ListInOrder
  <2>4. /\ older.page => Mounted /\ query.data # None /\ older.before <= query.data.rev
        /\ older.page /\ older.same => seen.filter = older.filter /\ older.before \in seen.rows
    BY <1>1 DEF ListInv, ListInOrder
  <2>5. (older' # None =>
          /\ older'.token <= hubToken
          /\ older'.at = "back" /\ older'.got = "refused" => Obsolete(older'.token)
          /\ older'.at = "back" /\ older'.got = "ok" => older'.rows = OlderRows(older')
          /\ older'.page => Mounted /\ query.data # None /\ older'.before <= query.data.rev
          /\ older'.page /\ older'.same
               => seen.filter = older'.filter /\ older'.before \in seen.rows)
    BY <1>7, <2>1, <2>3, <2>4
  <2> QED BY <1>2, <2>5 DEF ListInv, ListInOrder
<1>10. ListIsWhole'
  BY <1>2 DEF ListInv, ListIsWhole, Gapless, ReachesDown
<1> QED BY <1>8, <1>9, <1>10 DEF ListInv

LEMMA OlderArrivesKeeps ==
  ASSUME PanelInv, ListInv, OlderArrives
  PROVE  ListInv'
<1>1. older \in OlderPages /\ older' = None /\ UNCHANGED <<rev, hubToken, query>>
      /\ loading' \in BOOLEAN /\ older.rows = OlderRows(older)
  BY DEF OlderArrives, ListInv, ListTypeOK, ListInOrder, vars
<1>2. CASE ~(older.page /\ seen.filter = older.filter)
  <2>1. UNCHANGED <<seen, patchy>>
    BY <1>2 DEF OlderArrives
  <2> QED BY <1>1, <2>1 DEF ListInv, ListTypeOK, ListInOrder, ListIsWhole, Gapless, ReachesDown
<1>3. CASE older.page /\ seen.filter = older.filter
  <2> DEFINE f == older.filter
             b == older.before
             page == older.rows
             new == seen.rows \cup page
  <2>1. /\ seen' = [seen EXCEPT !.rows = new, !.exhausted = Cardinality(page) < Page]
        /\ patchy' = (patchy \/ ~older.same)
    BY <1>3 DEF OlderArrives, MergeLog
  <2>2. seen \in [filter : Inputs \cup {None}, rows : SUBSET (1 .. rev), exhausted : BOOLEAN]
        /\ patchy \in BOOLEAN /\ older.same \in BOOLEAN
    BY <1>1 DEF ListInv, ListTypeOK, OlderPages
  <2>3. /\ Mounted /\ query.data # None /\ b <= query.data.rev /\ b \in Nat /\ f \in Inputs
        /\ query.data.rev \in Nat /\ query.data.rev <= rev /\ rev \in Nat
    <3>1. Mounted /\ query.data # None /\ b <= query.data.rev /\ query \in Queries
      BY <1>1, <1>3 DEF ListInv, ListInOrder, PanelInv, PanelTypeOK
    <3>2. query.data \in Answers /\ b \in Nat /\ f \in Inputs /\ rev \in Nat
      BY <1>1, <3>1 DEF Queries, OlderPages, PanelInv, PanelTypeOK
    <3> QED BY <3>1, <3>2 DEF Answers, PanelInv, AnswersInOrder
  <2>4. page \in SUBSET Rows(f, query.data.rev)
    <3>1. page \in SUBSET Rows(f, b - 1)
      BY <1>1, OlderFound
    <3>2. Rows(f, b - 1) \subseteq Rows(f, query.data.rev)
      BY <2>3 DEF Rows
    <3> QED BY <3>1, <3>2
  <2>5. seen.rows \in SUBSET Rows(f, query.data.rev)
    BY <1>3, RowsOfTheList
  <2>6. new \subseteq 1 .. query.data.rev /\ new \subseteq Matches[f] /\ new \subseteq 1 .. rev
    BY <2>3, <2>4, <2>5 DEF Rows
  <2> HIDE DEF new, page
  <2>7. /\ seen'.filter = f /\ seen'.rows = new
        /\ seen'.exhausted <=> Cardinality(page) < Page
        /\ seen' \in [filter : Inputs \cup {None}, rows : SUBSET (1 .. rev), exhausted : BOOLEAN]
    <3>1. (Cardinality(page) < Page) \in BOOLEAN
      OBVIOUS
    <3>2. seen' \in [filter : Inputs \cup {None}, rows : SUBSET (1 .. rev), exhausted : BOOLEAN]
      BY <2>1, <2>2, <2>6, <3>1
    <3>3. seen'.filter = seen.filter /\ seen'.rows = new /\ seen'.exhausted = (Cardinality(page) < Page)
      BY <2>1, <2>2, Zenon
    <3> QED BY <1>3, <3>2, <3>3
  <2>8. patchy' \in BOOLEAN /\ (~patchy' => ~patchy /\ older.same)
    BY <2>1, <2>2
  <2>9. ListTypeOK'
    BY <1>1, <2>7, <2>8 DEF ListTypeOK
  <2>10. ListInOrder'
    BY <1>1, <2>3, <2>6, <2>7 DEF ListInOrder
  <2>11. ListIsWhole'
    <3> SUFFICES ASSUME ~patchy'
                 PROVE  /\ Gapless(new, Matches[f]) /\ new # {}
                        /\ Cardinality(page) < Page => ReachesDown(new, Matches[f])
                        /\ Cardinality(new) < Page => ReachesDown(new, Matches[f])
      BY <2>7 DEF ListIsWhole, Gapless, ReachesDown
    <3>1. b \in seen.rows
      BY <1>1, <1>3, <2>8 DEF ListInv, ListInOrder
    <3>2. Gapless(seen.rows, Matches[f])
      BY <1>3, <2>8 DEF ListInv, ListIsWhole
    <3>3. page = RecentLog(f, b - 1)
      BY <1>1 DEF page, OlderRows
    <3> HIDE DEF b, f
    <3> QED BY <2>3, <2>5, <3>1, <3>2, <3>3, OlderPage DEF new
  <2> QED BY <2>9, <2>10, <2>11 DEF ListInv
<1> QED BY <1>2, <1>3

LEMMA OlderFailsKeeps ==
  ASSUME PanelInv, ListInv, OlderFails
  PROVE  ListInv'
BY DEF OlderFails, vars, ListInv, ListTypeOK, ListInOrder, ListIsWhole, Gapless, ReachesDown

(* A refused older page signs the panel out. *)
LEMMA OlderRefusedKeeps ==
  ASSUME PanelInv, ListInv, OlderRefused
  PROVE  PanelInv' /\ ListInv'
<1>1. PanelInv'
  <2>1. PanelTypeOK'
    BY DEF PanelInv, PanelTypeOK, OlderRefused, SignOut, Unmount, Cleanup, Orphaned
  <2>2. BusyIsARequest' /\ ShowsItsInputs' /\ ShowsItsChange'
    BY DEF BusyIsARequest, ShowsItsInputs, ShowsItsChange, OlderRefused, SignOut, Unmount
  <2>3. SessionInOrder'
    BY DEF PanelInv, PanelTypeOK, SessionInOrder, OlderRefused, SignOut, Unmount, Cleanup, Orphaned
  <2>4. AnswersInOrder'
    BY DEF PanelInv, PanelTypeOK, AnswersInOrder, OlderRefused, SignOut, Unmount, Cleanup, Orphaned
  <2> QED BY <2>1, <2>2, <2>3, <2>4 DEF PanelInv
<1>2. ListInv'
  <2>1. seen' = NothingSeen /\ older' = None /\ loading' = FALSE /\ patchy' = FALSE
    BY DEF OlderRefused
  <2>2. NothingSeen \in [filter : Inputs \cup {None}, rows : SUBSET (1 .. rev'), exhausted : BOOLEAN]
    BY DEF NothingSeen
  <2>3. ListTypeOK'
    BY <2>1, <2>2 DEF ListTypeOK
  <2>4. ListInOrder' /\ ListIsWhole'
    BY <2>1, NothingIsWhole DEF ListInOrder, ListIsWhole, Gapless, ReachesDown
  <2> QED BY <2>3, <2>4 DEF ListInv
<1> QED BY <1>1, <1>2

-----------------------------------------------------------------------------
(* The invariant holds, whatever the person, the hub and the network do.   *)
THEOREM PageInvariant == LogSpec => []PageInv
<1>1. LogInit => PageInv
  BY PanelBegins, ListBegins, InTwoParts DEF LogInit
<1>2. PageInv /\ [LogNext]_logVars => PageInv'
  <2> SUFFICES ASSUME PanelInv, ListInv, [LogNext]_logVars
               PROVE  PanelInv' /\ ListInv'
    BY InTwoParts DEF PageInv, QueryInv, TypeOK, PanelInv, ListInv, ListTypeOK
  <2>1. CASE PanelStep
    <3>1. Next /\ Follow
      BY <2>1 DEF PanelStep
    <3>2. PanelInv' /\ DataGrows
      BY <3>1, PanelKeeps
    <3> QED BY <3>1, <3>2, FollowKeeps
  <2>2. CASE LoadOlder \/ HubReadsOlder \/ OlderArrives \/ OlderFails
    <3>1. UNCHANGED vars
      BY <2>2 DEF LoadOlder, HubReadsOlder, OlderArrives, OlderFails
    <3>2. PanelInv'
      BY <3>1, PanelStays
    <3> QED BY <2>2, <3>2, LoadOlderKeeps, HubReadsOlderKeeps, OlderArrivesKeeps, OlderFailsKeeps
  <2>3. CASE OlderRefused
    BY <2>3, OlderRefusedKeeps
  <2>4. CASE UNCHANGED logVars
    <3>1. UNCHANGED <<vars, seen, older, loading, patchy>> /\ UNCHANGED <<rev, hubToken, query>>
      BY <2>4 DEF logVars, vars
    <3>2. PanelInv'
      BY <3>1, PanelStays
    <3>3. ListInv'
      BY <3>1 DEF ListInv, ListTypeOK, ListInOrder, ListIsWhole, Gapless, ReachesDown
    <3> QED BY <3>2, <3>3
  <2> QED BY <2>1, <2>2, <2>3, <2>4 DEF LogNext
<1> QED BY <1>1, <1>2, PTL DEF LogSpec

(* What is on screen belongs to what is asked for (the three invariants of *)
(* the query hook in query.ts).                                            *)
THEOREM QueryInvHolds == LogSpec => []QueryInv
<1>1. PageInv => QueryInv
  BY DEF PageInv
<1> QED BY <1>1, PageInvariant, PTL

(* "That is everything" is only said of a log shown down to its beginning. *)
THEOREM EndIsTrueHolds == LogSpec => []EndIsTrue
<1>1. PageInv => EndIsTrue
  <2> SUFFICES ASSUME PanelInv, ListInv, Shown # {}, ~CanMore, ~patchy
               PROVE  Shown = (1 .. Max(Shown)) \cap Matches[query.inputs]
    BY InTwoParts DEF EndIsTrue
  <2>1. Shown = seen.rows /\ seen.rows # {} /\ seen.filter = query.inputs
    BY DEF Shown
  <2> DEFINE rows == seen.rows
             all == Matches[query.inputs]
  <2>2. query.data.rev \in Nat /\ rows \in SUBSET (1 .. query.data.rev) /\ rows \subseteq all
        /\ all \subseteq Nat
    <3>1. /\ query.data.rev \in Nat /\ seen.filter \in Inputs
          /\ rows \in SUBSET Rows(seen.filter, query.data.rev)
      BY <2>1, RowsOfTheList
    <3> QED BY <2>1, <3>1 DEF Rows
  <2>3. Max(rows) \in rows /\ \A i \in rows : i <= Max(rows)
    <3>1. rows \in SUBSET (0 .. query.data.rev)
      BY <2>2
    <3> HIDE DEF rows
    <3>2. \E m \in rows : \A i \in rows : i <= m
      BY <2>1, <2>2, <3>1, GreatestExists DEF rows
    <3> QED BY <2>2, <3>1, <3>2 DEF Max
  <2>4. ReachesDown(rows, all)
    <3>1. seen.exhausted \/ Cardinality(rows) < Page
      <4>1. seen.exhausted \/ ~(Cardinality(rows) >= Page)
        BY <2>1 DEF CanMore
      <4>2. Cardinality(rows) \in Nat
        <5>1. IsFiniteSet(1 .. query.data.rev)
          BY <2>2, FS_Interval
        <5> QED BY <2>2, <5>1, FS_Subset, FS_CardinalityType
      <4> QED BY <4>1, <4>2
    <3> QED BY <2>1, <3>1 DEF ListInv, ListIsWhole
  <2> DEFINE m == Max(rows)
  <2>5. m \in 1 .. query.data.rev
    BY <2>2, <2>3
  <2> HIDE DEF m
  <2>6. rows = (1 .. m) \cap all
    <3>1. ASSUME NEW i \in rows
          PROVE  i \in (1 .. m) \cap all
      BY <2>2, <2>3, <2>5 DEF m
    <3>2. ASSUME NEW j \in (1 .. m) \cap all
          PROVE  j \in rows
      <4>1. m \in rows
        BY <2>3 DEF m
      <4>2. j = m \/ (1 <= j /\ j < m)
        BY <2>5
      <4> QED BY <2>4, <4>1, <4>2 DEF ReachesDown
    <3> QED BY <3>1, <3>2
  <2> QED BY <2>1, <2>6 DEF m
<1> QED BY <1>1, PageInvariant, PTL

(* A session ends as expired only when the hub refused its token, or a     *)
(* call without an abort signal that another token was sent with.          *)
THEOREM SessionEndsHolds == LogSpec => SessionEnds
<1> DEFINE Reason ==
      \/ session.token # hubToken
      \/ (action.at = "back" /\ action.token # session.token)
      \/ (older # None /\ older.token # session.token)
      \/ \E l \in late : l.of = "reload" /\ l.token # session.token
<1>1. PageInv /\ [LogNext]_logVars => [(SignedIn /\ session'.expired) => Reason]_logVars
  <2> SUFFICES ASSUME PanelInv, ListInv, LogNext, SignedIn, session'.expired
               PROVE  Reason
    BY InTwoParts
  <2>1. /\ ~session.expired /\ login = None /\ session.token \in Tokens /\ hubToken \in Tokens
        /\ session.token <= hubToken
    BY DEF PanelInv, PanelTypeOK, SessionInOrder
  <2>2. session' # session
    BY <2>1
  <2>3. CASE RunRefused
    <3>1. session.token = run.token /\ run.token < hubToken
      BY <2>1, <2>3 DEF RunRefused, PanelInv, SessionInOrder
    <3> QED BY <2>1, <3>1
  <2>4. CASE ActionRefused
    <3>1. action.at = "back" /\ (action.token # None => action.token < hubToken)
      BY <2>4 DEF ActionRefused, PanelInv, SessionInOrder
    <3> QED BY <2>1, <3>1
  <2>5. CASE OlderRefused
    <3>1. older # None /\ (older.token # None => older.token < hubToken)
      BY <2>5 DEF OlderRefused, ListInv, ListInOrder
    <3> QED BY <2>1, <3>1
  <2>6. ASSUME NEW l \in late, LateRefused(l)
        PROVE  Reason
    <3>1. l.of = "reload" /\ (l.token # None => l.token < hubToken)
      BY <2>6 DEF LateRefused, PanelInv, SessionInOrder
    <3> QED BY <2>1, <3>1
  <2>7. CASE SignIn \/ PersonSignsOut
    <3>1. ~session'.expired
      BY <2>1, <2>7 DEF SignIn, PersonSignsOut, SignOut
    <3> QED BY <3>1
  <2>8. CASE HubAcceptsLogin \/ TokenChanges \/ HubChanges
             \/ \E on \in BOOLEAN, inputs \in Inputs : Open(on, inputs) \/ Change(on, inputs)
    BY <2>2, <2>8 DEF HubAcceptsLogin, TokenChanges, HubChanges, Open, Change
  <2>9. CASE Leave \/ Tick \/ PressReload \/ HubReads \/ RunSettles
    BY <2>2, <2>9 DEF Leave, Tick, PressReload, HubReads, RunSettles
  <2>10. CASE Act \/ HubActs \/ ActionSucceeds \/ ActionFails \/ \E l \in late : LateRead(l)
    BY <2>2, <2>10 DEF Act, HubActs, ActionSucceeds, ActionFails, LateRead
  <2>11. CASE LoadOlder \/ HubReadsOlder \/ OlderArrives \/ OlderFails
    BY <2>2, <2>11 DEF LoadOlder, HubReadsOlder, OlderArrives, OlderFails, vars
  <2> QED BY <2>3, <2>4, <2>5, <2>6, <2>7, <2>8, <2>9, <2>10, <2>11 DEF LogNext, PanelStep, Next
<1> QED BY <1>1, PageInvariant, PTL DEF LogSpec, SessionEnds
==============================================================================
