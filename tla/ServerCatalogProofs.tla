------------------------- MODULE ServerCatalogProofs -------------------------
(***************************************************************************)
(* Theorems about ServerCatalog, for any versions, tools, requests, first  *)
(* states and bounds.                                                      *)
(***************************************************************************)
EXTENDS ServerCatalog, TLAPS

RequestRec == [pc : Pc, id : 0..MaxRequests, job : Job \cup {NoJob}, card : Doc \cup {NoDoc},
               target : Doc \cup {NoDoc}, seen : Doc \cup {NoDoc}]

\* The requests that come to a point.
OpsAt(pc) ==
    CASE pc \in {"group", "check", "create"} -> {"register"}
      [] pc = "list" -> {"register", "remove"}
      [] pc \in {"target", "drop_target"} -> {"default", "remove"}
      [] pc \in {"drop", "promote", "demote"} -> {"default"}
      [] pc = "write" -> {"put", "patch", "toggle", "tool", "clear", "fetch", "delete"}
      [] pc = "unset" -> {"clear"}
      [] pc = "mark" -> {"register", "put", "patch"}
      [] pc \in {"overrides", "reconcile", "disable"} -> {"scan", "register", "put", "patch"}
      [] OTHER -> Op

\* A request has the documents its next step uses.
Placed(q, pc) ==
    /\ q.job.op \in OpsAt(pc)
    /\ pc \in InFlight => q.job \in Job /\ (IfMatch(q) => q.seen # NoDoc)
    /\ pc \in {"group", "check", "list", "target", "drop", "drop_target", "promote", "demote",
              "write", "mark"} => q.card # NoDoc
    /\ pc \in {"mark", "overrides", "reconcile", "disable"} => q.job.scan \in Verdict
    /\ pc = "mark" => Tags(q.job)
    /\ pc \in {"drop", "promote"} => q.target # NoDoc
    /\ pc = "drop_target" /\ q.job.op = "default" => q.target # NoDoc
Typed(q) == q \in RequestRec /\ Placed(q, q.pc)

\* No two documents have one revision, and none a revision of the future.
Revised == /\ active # NoDoc => active.rev \in 1..clock
           /\ \A v \in Stored(inactive) :
                 /\ inactive[v].rev \in 1..clock
                 /\ active # NoDoc => inactive[v].rev # active.rev
                 /\ \A w \in Stored(inactive) \ {v} : inactive[w].rev # inactive[v].rev

DocsOK ==
    /\ active \in Doc \cup {NoDoc}
    /\ inactive \in [Version -> Doc \cup {NoDoc}]
    /\ clock \in Nat
    /\ Revised
RequestsOK == request \in [Slot -> RequestRec] /\ \A s \in Slot : Typed(request[s])
CountsOK   == /\ started \in 0..MaxRequests /\ faults \in 0..MaxFaults
              /\ disturbed \subseteq {"versions", "decisions", "scan"}
HistoryOK  == /\ promised \subseteq Version
              /\ decided \in [enabled : BOOLEAN, tools : [Tool -> Admin \cup {"none"}]]

TypeInv == DocsOK /\ RequestsOK /\ CountsOK /\ HistoryOK

\* What a revision tells of a document: all but the credential.
Same(d, e) == /\ d.ver = e.ver /\ d.enabled = e.enabled /\ d.overrides = e.overrides
              /\ d.others = e.others /\ d.text = e.text

\* The active document is the one a conditional edit has seen, or its handler has
\* read, if it has its revision; what the handler has read has the ETag of the client.
SeenInv == \A s \in Slot : LET q == request[s] IN
              Running(s) /\ IfMatch(q) =>
                 /\ q.seen.rev <= clock
                 /\ active # NoDoc /\ active.rev = q.seen.rev => Same(active, q.seen)
                 /\ q.pc = "write" =>
                       /\ ETag(q.card) = ETag(q.seen) /\ q.card.rev <= clock
                       /\ active # NoDoc /\ active.rev = q.card.rev => Same(active, q.card)

\* Which requests are in flight together.
AloneInv ==
    \A s, o \in Slot : Running(s) /\ Running(o) /\ s # o =>
        Clash(request[s].job, request[o].job) \subseteq disturbed

Whole(s) == Running(s) /\ WholeCard(request[s].job)

\* What VersionsKept says of a moment when no request rewrites whole documents.
Kept == /\ Versions([active |-> active, inactive |-> inactive]) = promised
        /\ promised # {} => active # NoDoc
        /\ active # NoDoc => active.others = Stored(inactive) /\ active.ver \notin Stored(inactive)

\* The card a request has read is the active document as to its versions.
Current(q) == active # NoDoc /\ q.card.ver = active.ver /\ q.card.others = active.others
\* What a request about another version has found out.
Grouping(q) == Current(q) /\ q.job.arg # active.ver /\ "version_group" \in q.card.has

\* What is stored while a request that rewrites whole documents is on its way.
Midway(q) ==
    LET v == q.job.arg IN
    /\ q.pc \in {"read", "unset", "overrides", "reconcile", "disable"} => Kept
    /\ q.pc \in {"write", "mark"} => Kept /\ Current(q)
    /\ q.pc = "group" => Kept /\ Current(q) /\ v # active.ver /\ active.others = {}
    /\ q.pc \in {"check", "target"} => Kept /\ Grouping(q)
    /\ q.pc = "create" =>
          /\ Kept
          /\ q.card = NoDoc => active = NoDoc
          /\ q.card # NoDoc => Grouping(q)
    /\ q.pc = "list" =>
          /\ Grouping(q) /\ active.ver \notin Stored(inactive)
          /\ q.job.op = "register" => /\ q.card.others \cup {v} = Stored(inactive)
                                     /\ promised \cup {v} = Stored(inactive) \cup {active.ver}
          /\ q.job.op = "remove" => /\ q.card.others \ {v} = Stored(inactive)
                                   /\ promised \ {v} = Stored(inactive) \cup {active.ver}
    /\ q.pc = "drop" => Kept /\ Grouping(q) /\ q.target.ver = v /\ v \in Stored(inactive)
    /\ q.pc = "drop_target" =>
          /\ q.job.op = "remove" => Kept /\ Grouping(q)
          /\ q.job.op = "default" =>
                /\ active = NoDoc /\ q.target.ver = v /\ v \in Stored(inactive)
                /\ q.card.others = Stored(inactive) /\ q.card.ver \notin Stored(inactive)
                /\ promised = Stored(inactive) \cup {q.card.ver}
    /\ q.pc = "promote" =>
          /\ active = NoDoc /\ q.target.ver = v /\ v \notin Stored(inactive) /\ v # q.card.ver
          /\ q.card.others \ {v} = Stored(inactive) /\ q.card.ver \notin Stored(inactive)
          /\ promised = Stored(inactive) \cup {q.card.ver, v}
    /\ q.pc = "demote" =>
          /\ active # NoDoc /\ active.ver = v /\ v \notin Stored(inactive) /\ v # q.card.ver
          /\ active.others = Stored(inactive) \cup {q.card.ver}
          /\ q.card.ver \notin Stored(inactive)
          /\ promised = Stored(inactive) \cup {q.card.ver, v}

\* Documents are stored under their version, and list others only once they are
\* versions themselves.
Shape == /\ \A v \in Stored(inactive) : inactive[v].ver = v
         /\ active # NoDoc => "version_group" \in active.has \/ active.others = {}

VersionInv ==
    /\ Shape
    /\ "versions" \notin disturbed =>
          /\ (\A s \in Slot : ~Whole(s)) => Kept
          /\ \A s \in Slot : Whole(s) => Midway(request[s])

\* The card a request has read is the active document as to what was decided.
Agrees(q) == q.card.enabled = active.enabled /\ q.card.overrides = active.overrides

\* Where a request holds a card that it may yet write, or that others rely on.
Held == {"group", "check", "create", "list", "target", "drop", "drop_target", "write",
         "mark"}

\* A request that will write its whole card has the decisions that stand; the
\* overrides a scan has read are the stored ones as to what administrators decided.
DecisionInv ==
    disturbed \cap {"decisions", "scan"} = {} /\ active # NoDoc =>
       /\ Decisions(active) = decided
       /\ \A s \in Slot : LET q == request[s] IN
             /\ Whole(s) /\ q.card # NoDoc /\ q.pc \in Held => Agrees(q)
             /\ q.pc = "reconcile" => q.card # NoDoc /\ Decisions(q.card).tools = decided.tools

\* What the request of one slot may do.
Step(s) ==
    \/ Arrive(s) \/ Read(s) \/ ReadFails(s) \/ Crash(s)
    \/ Group(s) \/ CheckVersion(s) \/ CreateServer(s) \/ CreateVersion(s) \/ List(s)
    \/ FindTarget(s) \/ RemoveTarget(s) \/ DropActive(s) \/ DropTarget(s)
    \/ Promote(s) \/ Demote(s) \/ Delete(s)
    \/ Write(s) \/ Unset(s)
    \/ Mark(s) \/ ReadOverrides(s) \/ Reconcile(s) \/ Disable(s)

LEMMA Steps == Next <=> \E s \in Slot : Step(s)
  BY DEF Next, Step

-----------------------------------------------------------------------------
(* Documents *)

LEMMA OverlayFields ==
  ASSUME clock \in Nat, NEW doc \in Doc, NEW card \in Doc
  PROVE  LET new == Overlay(doc, card)
         IN  /\ new \in Doc /\ new.rev = Rev
             /\ new.ver = card.ver /\ new.text = card.text
             /\ new.enabled = IF "is_enabled" \in card.has THEN card.enabled ELSE doc.enabled
             /\ new.has = card.has \cup doc.has
             /\ new.overrides = IF "tool_overrides" \in card.has THEN card.overrides
                                ELSE doc.overrides
             /\ new.others = IF "version_group" \in card.has THEN card.others ELSE doc.others
  <1> DEFINE has == card.has \cup doc.has
             enabled == IF "is_enabled" \in card.has THEN card.enabled ELSE doc.enabled
             overrides == IF "tool_overrides" \in card.has THEN card.overrides ELSE doc.overrides
             others == IF "version_group" \in card.has THEN card.others ELSE doc.others
  <1>1. /\ has \in SUBSET Optional /\ overrides \in [Tool -> Decision]
        /\ others \in SUBSET Version /\ Rev \in Nat /\ enabled \in BOOLEAN
    BY DEF Doc, Rev
  <1>2. Overlay(doc, card) =
           [card EXCEPT !.has = has, !.rev = Rev, !.enabled = enabled, !.overrides = overrides,
                        !.others = others]
    BY DEF Overlay, Doc
  <1> HIDE DEF has, enabled, overrides, others
  <1>3. Overlay(doc, card) \in Doc
    BY <1>1, <1>2 DEF Doc
  <1>4. LET new == Overlay(doc, card)
        IN  /\ new.rev = Rev /\ new.ver = card.ver /\ new.enabled = enabled
            /\ new.text = card.text /\ new.has = has /\ new.overrides = overrides
            /\ new.others = others
    BY <1>1, <1>2 DEF Doc
  <1> QED
    BY <1>3, <1>4 DEF has, enabled, overrides, others

LEMMA StateFields ==
  ASSUME clock \in Nat, NEW doc \in Doc, NEW on \in BOOLEAN
  PROVE  LET new == StateSet(doc, on)
         IN  /\ new \in Doc /\ new.rev = Rev /\ new.ver = doc.ver /\ new.enabled = on
             /\ new.overrides = doc.overrides /\ new.others = doc.others /\ new.has = doc.has
  <1>1. Rev \in Nat
    BY DEF Rev
  <1>2. StateSet(doc, on) \in Doc
    BY <1>1 DEF StateSet, Doc
  <1> QED
    BY <1>2 DEF StateSet, Doc

\* Both writes of overrides.
LEMMA OverrideFields ==
  ASSUME clock \in Nat, NEW doc \in Doc, NEW all \in [Tool -> Decision]
  PROVE  LET new == OverridesReplaced(doc, all)
         IN  /\ new \in Doc /\ new.rev = Rev /\ new.ver = doc.ver /\ new.enabled = doc.enabled
             /\ new.overrides = all /\ new.others = doc.others /\ doc.has \subseteq new.has
  <1> DEFINE has == doc.has \cup {"tool_overrides"}
  <1>1. Rev \in Nat /\ has \in SUBSET Optional /\ doc.has \subseteq has
    BY DEF Rev, Doc, Optional
  <1>2. OverridesReplaced(doc, all) = [doc EXCEPT !.overrides = all, !.has = has, !.rev = Rev]
    BY DEF OverridesReplaced, Doc
  <1> HIDE DEF has
  <1>3. OverridesReplaced(doc, all) \in Doc
    BY <1>1, <1>2 DEF Doc
  <1> QED
    BY <1>1, <1>2, <1>3 DEF Doc

LEMMA OverrideSetIs ==
  ASSUME NEW doc \in Doc, NEW t \in Tool, NEW d \in Admin
  PROVE  /\ [doc.overrides EXCEPT ![t] = d] \in [Tool -> Decision]
         /\ OverrideSet(doc, t, d) = OverridesReplaced(doc, [doc.overrides EXCEPT ![t] = d])
  BY DEF OverrideSet, OverridesReplaced, Doc, Admin, Decision

LEMMA UnsetFields ==
  ASSUME NEW doc \in Doc
  PROVE  LET new == CredentialUnset(doc)
         IN  /\ new \in Doc /\ new.rev = doc.rev /\ Same(new, doc)
             /\ "version_group" \in new.has <=> "version_group" \in doc.has
  <1>1. CredentialUnset(doc) \in Doc
    BY DEF CredentialUnset, Doc
  <1> QED
    BY <1>1 DEF CredentialUnset, Doc, Same

LEMMA InsertedFields ==
  ASSUME clock \in Nat, NEW doc \in Doc
  PROVE  LET new == Inserted(doc)
         IN  new \in Doc /\ new.rev = Rev /\ Same(new, doc) /\ new.has = doc.has
  <1>1. Rev \in Nat
    BY DEF Rev
  <1>2. Inserted(doc) \in Doc
    BY <1>1 DEF Inserted, Doc
  <1> QED
    BY <1>2 DEF Inserted, Doc, Same

LEMMA TextFields ==
  ASSUME NEW doc \in Doc, NEW text \in Nat
  PROVE  LET new == [doc EXCEPT !.text = text]
         IN  /\ new \in Doc /\ new.rev = doc.rev /\ new.ver = doc.ver
             /\ new.enabled = doc.enabled /\ new.overrides = doc.overrides
             /\ new.others = doc.others /\ new.has = doc.has
  <1>1. [doc EXCEPT !.text = text] \in Doc
    BY DEF Doc
  <1> QED
    BY <1>1 DEF Doc

LEMMA GroupedFields ==
  ASSUME NEW card \in Doc
  PROVE  LET new == Grouped(card)
         IN  /\ new \in Doc /\ new.ver = card.ver
             /\ new.enabled = card.enabled /\ new.overrides = card.overrides
             /\ "version_group" \in new.has
             /\ new.others = IF "version_group" \in card.has THEN card.others ELSE {}
  <1>1. card.has \cup {"version_group"} \in SUBSET Optional
    BY DEF Doc, Optional
  <1>2. Grouped(card) \in Doc
    BY <1>1 DEF Grouped, Doc
  <1> QED
    BY <1>2 DEF Grouped, Doc

LEMMA RequestFields ==
  ASSUME NEW q, Typed(q)
  PROVE  /\ q.pc \in Pc /\ q.id \in 0..MaxRequests /\ q.job \in Job \cup {NoJob}
         /\ q.card \in Doc \cup {NoDoc} /\ q.target \in Doc \cup {NoDoc}
         /\ q.seen \in Doc \cup {NoDoc}
         /\ q.job \in Job => q.job.op \in Op /\ q.job.arg \in Arg(q.job.op)
         /\ Placed(q, q.pc) /\ q \in RequestRec
  BY CatalogConstants DEF Typed, RequestRec

LEMMA ListedFields ==
  ASSUME NEW q, Typed(q), q.card # NoDoc, q.job \in Job, q.job.op \in {"register", "remove"}
  PROVE  LET new == Listed(q)
         IN  /\ new \in Doc /\ new.ver = q.card.ver
             /\ new.enabled = q.card.enabled /\ new.overrides = q.card.overrides
             /\ new.has = q.card.has
             /\ new.others = IF q.job.op = "register" THEN q.card.others \cup {q.job.arg}
                            ELSE q.card.others \ {q.job.arg}
  <1>1. q.card \in Doc /\ q.job.arg \in Version
    BY RequestFields DEF Arg
  <1> DEFINE others == IF q.job.op = "register" THEN q.card.others \cup {q.job.arg}
                       ELSE q.card.others \ {q.job.arg}
  <1>2. others \in SUBSET Version /\ Listed(q) = [q.card EXCEPT !.others = others]
    BY <1>1 DEF Listed, Doc
  <1> HIDE DEF others
  <1>3. Listed(q) \in Doc
    BY <1>1, <1>2 DEF Doc
  <1>4. LET new == Listed(q)
        IN  /\ new.ver = q.card.ver /\ new.enabled = q.card.enabled
            /\ new.overrides = q.card.overrides /\ new.has = q.card.has /\ new.others = others
    BY <1>1, <1>2 DEF Doc
  <1> QED
    BY <1>3, <1>4 DEF others

LEMMA NewFields ==
  ASSUME NEW q, Typed(q), q.job \in Job, q.job.op = "register"
  PROVE  /\ LET new == NewServer(q)
            IN  /\ new \in Doc /\ new.ver = q.job.arg /\ new.others = {}
                /\ new.has = {"is_enabled"}
                /\ new.enabled = FALSE /\ new.overrides = [t \in Tool |-> "none"]
         /\ q.card # NoDoc => NewVersion(q) \in Doc /\ NewVersion(q).ver = q.job.arg
         /\ VersionCard(q) \in Doc
  <1>1. q.job.arg \in Version /\ q.id \in Nat /\ q.card \in Doc \cup {NoDoc}
    BY RequestFields, CatalogConstants DEF Arg
  <1>2. NewServer(q) \in Doc
    BY <1>1 DEF NewServer, Doc, Decision, Optional
  <1>3. q.card # NoDoc => NewVersion(q) \in Doc
    <2>1. NewServer(q).has \cup {"version_group"} \in SUBSET Optional
      BY DEF NewServer, Optional
    <2> QED
      BY <1>1, <1>2, <2>1 DEF NewVersion, Doc
  <1>4. VersionCard(q) \in Doc
    BY <1>2 DEF VersionCard, Doc
  <1> QED
    BY <1>1, <1>2, <1>3, <1>4 DEF NewServer, NewVersion, Doc

LEMMA SwapFields ==
  ASSUME NEW q, Typed(q), q.card # NoDoc
  PROVE  /\ Demoted(q) \in Doc /\ Demoted(q).ver = q.card.ver
         /\ q.target # NoDoc /\ q.job.op = "default" /\ q.job \in Job => LET new == Promoted(q)
            IN  /\ new \in Doc /\ new.ver = q.target.ver /\ "version_group" \in new.has
                /\ new.others = (q.card.others \ {q.job.arg}) \cup {q.card.ver}
  <1>1. q.card \in Doc /\ q.target \in Doc \cup {NoDoc}
    BY RequestFields
  <1>2. Demoted(q) \in Doc /\ Demoted(q).ver = q.card.ver
    BY <1>1 DEF Demoted, Doc
  <1>3. ASSUME q.target # NoDoc, q.job.op = "default", q.job \in Job
        PROVE  LET new == Promoted(q)
               IN  /\ new \in Doc /\ new.ver = q.target.ver /\ "version_group" \in new.has
                   /\ new.others = (q.card.others \ {q.job.arg}) \cup {q.card.ver}
    <2> DEFINE others == (q.card.others \ {q.job.arg}) \cup {q.card.ver}
               has == q.target.has \cup {"version_group"}
    <2>1. others \in SUBSET Version /\ has \in SUBSET Optional
      BY <1>1, <1>3 DEF Doc, Optional
    <2>2. Promoted(q) = [q.target EXCEPT !.others = others, !.has = has]
      BY <1>1, <1>3 DEF Promoted, Doc
    <2>3. "version_group" \in has
      OBVIOUS
    <2> HIDE DEF others, has
    <2>4. Promoted(q) \in Doc
      BY <1>1, <1>3, <2>1, <2>2 DEF Doc
    <2>5. LET new == Promoted(q) IN new.ver = q.target.ver /\ new.has = has /\ new.others = others
      BY <1>1, <1>3, <2>2 DEF Doc
    <2> QED
      BY <2>3, <2>4, <2>5 DEF others
  <1> QED
    BY <1>2, <1>3

LEMMA ClearFields ==
  ASSUME NEW card \in Doc
  PROVE  LET new == [card EXCEPT !.has = @ \ {"credential"}]
         IN  /\ new \in Doc /\ new.ver = card.ver
             /\ new.enabled = card.enabled /\ new.overrides = card.overrides
             /\ new.others = card.others
             /\ \A f \in Optional \ {"credential"} : f \in new.has <=> f \in card.has
             /\ new.has \subseteq card.has
  <1>1. [card EXCEPT !.has = @ \ {"credential"}] \in Doc
    BY DEF Doc
  <1> QED
    BY <1>1 DEF Doc

\* The document a write leaves, by the request.
EditOf(q, new) ==
    /\ new \in Doc /\ new.rev = Rev /\ active.has \subseteq new.has
    /\ q.job.op \in {"patch", "toggle", "tool"} =>
          new.ver = active.ver /\ new.others = active.others
    /\ q.job.op = "patch" => new.enabled = active.enabled /\ new.overrides = active.overrides
    /\ q.job.op = "toggle" => new.enabled = q.job.arg /\ new.overrides = active.overrides
    /\ q.job.op = "tool" =>
          /\ new.enabled = active.enabled
          /\ new.overrides = [active.overrides EXCEPT ![q.job.arg[1]] = q.job.arg[2]]
    /\ q.job.op \in {"put", "clear", "fetch"} =>
          /\ new.ver = q.card.ver
          /\ new.enabled = IF "is_enabled" \in q.card.has THEN q.card.enabled
                           ELSE active.enabled
          /\ new.overrides = IF "tool_overrides" \in q.card.has THEN q.card.overrides
                             ELSE active.overrides
          /\ new.others = IF "version_group" \in q.card.has THEN q.card.others
                          ELSE active.others
          /\ "version_group" \in q.card.has => "version_group" \in new.has

LEMMA ReconciledType ==
  ASSUME NEW q, Typed(q)
  PROVE  Reconciled(q) \in [Tool -> Decision]
  <1>1. q.card \in Doc \cup {NoDoc}
    BY RequestFields
  <1>2. Overrides(q.card) \in [Tool -> Decision]
    BY <1>1 DEF Overrides, Doc, Decision
  <1> QED
    BY <1>2 DEF Reconciled, Decision

LEMMA EditedFields ==
  ASSUME TypeInv, NEW s \in Slot, request[s].pc = "write", active # NoDoc,
         request[s].job.op # "delete"
  PROVE  EditOf(request[s], Edited(request[s]))
  <1> DEFINE q == request[s]
  <1>1. Typed(q)
    BY DEF TypeInv, RequestsOK
  <1>2. /\ q.card \in Doc /\ q.id \in Nat /\ q.job \in Job
        /\ q.job.op \in {"put", "patch", "toggle", "tool", "clear", "fetch"}
        /\ q.job.arg \in Arg(q.job.op)
    <2>1. /\ q.pc \in InFlight
          /\ OpsAt("write") = {"put", "patch", "toggle", "tool", "clear", "fetch", "delete"}
      BY DEF InFlight, Pc, OpsAt
    <2> QED
      BY <1>1, <2>1, RequestFields, CatalogConstants DEF Placed
  <1>3. active \in Doc /\ clock \in Nat
    BY DEF TypeInv, DocsOK
  <1> HIDE DEF q
  <1> DEFINE new == Edited(q)
  <1> HIDE DEF new
  <1> SUFFICES EditOf(q, new)
    BY DEF q, new
  <1>4. CASE q.job.op = "patch"
    <2> DEFINE doc == [active EXCEPT !.text = q.id]
    <2>1. /\ doc \in Doc /\ doc.ver = active.ver /\ doc.enabled = active.enabled
          /\ doc.overrides = active.overrides /\ doc.others = active.others
          /\ doc.has = active.has
      BY <1>2, <1>3, TextFields
    <2>2. new = Inserted(doc)
      BY <1>3, <1>4 DEF new, Edited, Patched, Inserted, Doc
    <2> HIDE DEF doc
    <2>3. /\ new \in Doc /\ new.rev = Rev /\ new.ver = active.ver /\ new.others = active.others
          /\ new.enabled = active.enabled /\ new.overrides = active.overrides
          /\ new.has = active.has
      BY <1>3, <2>1, <2>2, InsertedFields DEF Same
    <2> QED
      BY <1>4, <2>3 DEF EditOf
  <1>5. CASE q.job.op = "toggle"
    <2>1. q.job.arg \in BOOLEAN /\ new = StateSet(active, q.job.arg)
      BY <1>2, <1>5 DEF Arg, new, Edited
    <2>2. /\ new \in Doc /\ new.rev = Rev /\ new.ver = active.ver /\ new.others = active.others
          /\ new.enabled = q.job.arg /\ new.overrides = active.overrides
          /\ new.has = active.has
      BY <1>3, <2>1, StateFields
    <2> QED
      BY <1>5, <2>2 DEF EditOf
  <1>6. CASE q.job.op = "tool"
    <2> DEFINE all == [active.overrides EXCEPT ![q.job.arg[1]] = q.job.arg[2]]
    <2>1. q.job.arg[1] \in Tool /\ q.job.arg[2] \in Admin
      BY <1>2, <1>6 DEF Arg
    <2>2. all \in [Tool -> Decision] /\ new = OverridesReplaced(active, all)
      BY <1>3, <1>6, <2>1, OverrideSetIs DEF new, Edited
    <2> HIDE DEF all
    <2>3. /\ new \in Doc /\ new.rev = Rev /\ new.ver = active.ver
          /\ new.enabled = active.enabled /\ new.overrides = all
          /\ new.others = active.others /\ active.has \subseteq new.has
      BY <1>3, <2>2, OverrideFields
    <2> QED
      BY <1>6, <2>3 DEF EditOf, all
  \* The three writes of a whole card.
  <1> DEFINE Flags == {"is_enabled", "tool_overrides", "version_group"}
  <1>7. ASSUME NEW card \in Doc, card.ver = q.card.ver, card.enabled = q.card.enabled,
               card.overrides = q.card.overrides, card.others = q.card.others,
               \A f \in Flags : f \in card.has <=> f \in q.card.has,
               new = Overlay(active, card), q.job.op \in {"put", "clear", "fetch"}
        PROVE  EditOf(q, new)
    <2>1. /\ new \in Doc /\ new.rev = Rev /\ new.ver = card.ver
          /\ new.has = card.has \cup active.has
          /\ new.enabled = IF "is_enabled" \in card.has THEN card.enabled ELSE active.enabled
          /\ new.overrides = IF "tool_overrides" \in card.has THEN card.overrides
                             ELSE active.overrides
          /\ new.others = IF "version_group" \in card.has THEN card.others
                          ELSE active.others
      BY <1>3, <1>7, OverlayFields
    <2>2. /\ "is_enabled" \in card.has <=> "is_enabled" \in q.card.has
          /\ "tool_overrides" \in card.has <=> "tool_overrides" \in q.card.has
          /\ "version_group" \in card.has <=> "version_group" \in q.card.has
      BY <1>7
    <2> QED
      BY <1>7, <2>1, <2>2 DEF EditOf
  <1>8. /\ Merged(q) \in Doc /\ Merged(q).ver = q.card.ver
        /\ Merged(q).enabled = q.card.enabled /\ Merged(q).overrides = q.card.overrides
        /\ Merged(q).others = q.card.others /\ Merged(q).has = q.card.has
    BY <1>2, TextFields DEF Merged
  <1>9. CASE q.job.op = "put"
    BY <1>7, <1>8, <1>9 DEF new, Edited
  <1>10. CASE q.job.op = "clear"
    <2> DEFINE card == [q.card EXCEPT !.has = @ \ {"credential"}]
    <2>1. /\ card \in Doc /\ card.ver = q.card.ver /\ card.enabled = q.card.enabled
          /\ card.overrides = q.card.overrides /\ card.others = q.card.others
          /\ \A f \in Flags : f \in card.has <=> f \in q.card.has
      BY <1>2, ClearFields DEF Optional
    <2>2. new = Overlay(active, card)
      BY <1>10 DEF new, Edited
    <2> HIDE DEF card
    <2> QED
      BY <1>7, <1>10, <2>1, <2>2
  <1>11. CASE q.job.op = "fetch"
    <2> DEFINE card == [Merged(q) EXCEPT !.has = @ \ {"credential"}]
    <2>1. /\ card \in Doc /\ card.ver = q.card.ver /\ card.enabled = q.card.enabled
          /\ card.overrides = q.card.overrides /\ card.others = q.card.others
          /\ \A f \in Flags : f \in card.has <=> f \in q.card.has
      BY <1>8, ClearFields DEF Optional
    <2>2. new = Overlay(active, card)
      BY <1>11 DEF new, Edited
    <2> HIDE DEF card
    <2> QED
      BY <1>7, <1>11, <2>1, <2>2
  <1> QED
    BY <1>2, <1>4, <1>5, <1>6, <1>9, <1>10, <1>11

-----------------------------------------------------------------------------
(* Types *)

\* What a step may do to the active document and its revision.
ActiveStep ==
    \/ UNCHANGED <<active, clock>>
    \/ active' = active /\ Tick
    \/ active' = NoDoc /\ clock' = clock
    \/ active' \in Doc /\ active'.rev = Rev /\ Tick
    \/ active # NoDoc /\ active' = CredentialUnset(active) /\ clock' = clock

\* And to the others.
InactiveStep ==
    \/ inactive' = inactive
    \/ inactive' = Survivors /\ active' = NoDoc /\ clock' = clock
    \/ /\ UNCHANGED <<active, clock>>
       /\ \E v \in Version : inactive' = [inactive EXCEPT ![v] = NoDoc]
    \/ /\ active' = active /\ Tick
       /\ \E v \in Version, d \in Doc : d.rev = Rev /\ inactive' = [inactive EXCEPT ![v] = d]

LEMMA DocsStep == DocsOK /\ ActiveStep /\ InactiveStep => DocsOK'
  <1> SUFFICES ASSUME DocsOK, ActiveStep, InactiveStep PROVE DocsOK'
    OBVIOUS
  <1> USE CatalogConstants
  <1>1. clock' \in Nat /\ clock <= clock'
    BY DEF DocsOK, ActiveStep, Tick, Rev
  <1>2. CASE inactive' = inactive
    <2>1. CASE UNCHANGED <<active, clock>> \/ (active' = active /\ Tick) \/ active' = NoDoc
      <3>1. active' = active \/ active' = NoDoc
        BY <2>1
      <3> QED
        BY <1>1, <1>2, <3>1 DEF DocsOK, Revised, Stored
    <2>2. CASE active' \in Doc /\ active'.rev = Rev /\ Tick
      BY <1>1, <1>2, <2>2 DEF DocsOK, Revised, Stored, Tick, Rev
    <2>3. CASE active # NoDoc /\ active' = CredentialUnset(active) /\ clock' = clock
      <3>1. active' \in Doc /\ active'.rev = active.rev
        BY <2>3, UnsetFields DEF DocsOK
      <3>2. active' # NoDoc /\ active \in Doc
        BY <2>3, <3>1 DEF DocsOK
      <3>3. active.rev \in 1..clock
        BY <2>3 DEF DocsOK, Revised
      <3> QED
        BY <1>1, <1>2, <2>3, <3>1, <3>3 DEF DocsOK, Revised, Stored
    <2> QED
      BY <2>1, <2>2, <2>3 DEF ActiveStep
  <1>3. CASE inactive' = Survivors /\ active' = NoDoc /\ clock' = clock
    <2>1. Stored(inactive') = {} /\ inactive' \in [Version -> Doc \cup {NoDoc}]
      BY <1>3 DEF Survivors, Stored
    <2> QED
      BY <1>1, <1>3, <2>1 DEF DocsOK, Revised
  <1>4. ASSUME NEW v \in Version, UNCHANGED <<active, clock>>,
               inactive' = [inactive EXCEPT ![v] = NoDoc]
        PROVE  DocsOK'
    <2>1. /\ inactive' \in [Version -> Doc \cup {NoDoc}]
          /\ Stored(inactive') \subseteq Stored(inactive)
          /\ \A w \in Stored(inactive') : inactive'[w] = inactive[w]
      BY <1>4 DEF DocsOK, Stored
    <2>2. \A w \in Stored(inactive') : inactive'[w] = inactive[w] /\ w \in Stored(inactive)
      BY <2>1
    <2>3. \A w \in Stored(inactive') : /\ inactive'[w].rev \in 1..clock
                                       /\ active # NoDoc => inactive'[w].rev # active.rev
      BY <2>2 DEF DocsOK, Revised
    <2>4. \A w, x \in Stored(inactive') : w # x => inactive'[w].rev # inactive'[x].rev
      BY <2>2 DEF DocsOK, Revised
    <2>5. Revised'
      BY <1>4, <2>3, <2>4 DEF DocsOK, Revised
    <2> QED
      BY <1>1, <1>4, <2>1, <2>5 DEF DocsOK
  <1>5. ASSUME NEW v \in Version, NEW d \in Doc, d.rev = Rev, active' = active, Tick,
               inactive' = [inactive EXCEPT ![v] = d]
        PROVE  DocsOK'
    <2>1. /\ inactive' \in [Version -> Doc \cup {NoDoc}]
          /\ \A w \in Stored(inactive') \ {v} : inactive'[w] = inactive[w] /\ w \in Stored(inactive)
          /\ inactive'[v] = d
      BY <1>5 DEF DocsOK, Stored
    <2>2. \A w \in Stored(inactive') : inactive'[w].rev \in 1..clock'
      BY <1>1, <1>5, <2>1 DEF DocsOK, Revised, Tick, Rev
    <2>3. \A w \in Stored(inactive') : active' # NoDoc => inactive'[w].rev # active'.rev
      BY <1>1, <1>5, <2>1 DEF DocsOK, Revised, Tick, Rev
    <2>4. \A w, x \in Stored(inactive') : w # x => inactive'[w].rev # inactive'[x].rev
      BY <1>1, <1>5, <2>1 DEF DocsOK, Revised, Tick, Rev
    <2>5. active' # NoDoc => active'.rev \in 1..clock'
      BY <1>1, <1>5 DEF DocsOK, Revised
    <2>6. Revised'
      BY <2>2, <2>3, <2>4, <2>5 DEF Revised
    <2> QED
      BY <1>1, <1>5, <2>1, <2>6 DEF DocsOK
  <1> QED
    BY <1>2, <1>3, <1>4, <1>5 DEF InactiveStep

LEMMA MovedTypes ==
  ASSUME NEW q, NEW pc \in Pc, pc \in InFlight => (q \in RequestRec /\ Placed(q, pc))
  PROVE  Typed(Moved(q, pc))
  <1>1. CASE pc \in InFlight
    <2>1. Moved(q, pc) = [q EXCEPT !.pc = pc]
      BY <1>1 DEF Moved
    <2>2. /\ [q EXCEPT !.pc = pc] \in RequestRec /\ [q EXCEPT !.pc = pc].pc = pc
          /\ [q EXCEPT !.pc = pc].job = q.job /\ [q EXCEPT !.pc = pc].card = q.card
          /\ [q EXCEPT !.pc = pc].target = q.target /\ [q EXCEPT !.pc = pc].seen = q.seen
      BY <1>1 DEF RequestRec
    <2> QED
      BY <1>1, <2>1, <2>2 DEF Typed, Placed, IfMatch
  <1>2. CASE pc \notin InFlight
    <2>1. Moved(q, pc) = [Idle EXCEPT !.pc = pc]
      BY <1>2 DEF Moved
    <2>2. /\ [Idle EXCEPT !.pc = pc] \in RequestRec /\ [Idle EXCEPT !.pc = pc].pc = pc
          /\ [Idle EXCEPT !.pc = pc].job = NoJob
      BY CatalogConstants DEF Idle, RequestRec
    <2>3. pc \in {"idle", "ok", "refused", "dead"} /\ NoJob.op \in OpsAt(pc)
      BY <1>2 DEF InFlight, NoJob, OpsAt, Op
    <2> QED
      BY <1>2, <2>1, <2>2, <2>3 DEF Typed, Placed
  <1> QED
    BY <1>1, <1>2

LEMMA Moves ==
  ASSUME RequestsOK, NEW s \in Slot, NEW q, Typed(q), request' = [request EXCEPT ![s] = q]
  PROVE  RequestsOK'
  BY DEF RequestsOK, Typed

LEMMA ToMoves ==
  ASSUME RequestsOK, NEW s \in Slot, NEW pc \in Pc, To(s, pc),
         pc \in InFlight => Placed(request[s], pc)
  PROVE  RequestsOK'
  <1>1. request[s] \in RequestRec
    BY DEF RequestsOK, Typed
  <1>2. Typed(Moved(request[s], pc))
    BY <1>1, MovedTypes
  <1> QED
    BY <1>2, Moves DEF To

LEMMA FaultCounts ==
  ASSUME CountsOK, NEW s \in Slot, Fault(s)
  PROVE  faults' \in 0..MaxFaults /\ disturbed' \subseteq {"versions", "decisions", "scan"}
  BY CatalogConstants DEF CountsOK, Fault, Clash

LEMMA DecisionsType == \A doc \in Doc :
    Decisions(doc) \in [enabled : BOOLEAN, tools : [Tool -> Admin \cup {"none"}]]
  BY DEF Decisions, Doc

\* Where a request that is at its first step goes, and with what.
LEMMA ReadPlaces ==
  ASSUME DocsOK, NEW q, Typed(q), q.pc = "read"
  PROVE  Typed(Moved([q EXCEPT !.card = active], AfterRead(q)))
  <1> DEFINE new == [q EXCEPT !.card = active]
             pc == AfterRead(q)
             Plain == {"put", "patch", "toggle", "tool", "clear", "fetch", "delete"}
             Changed == IfMatch(q) /\ ETag(active) # ETag(q.seen)
  <1>1. q \in RequestRec /\ active \in Doc \cup {NoDoc} /\ q.job.op \in Op /\ q.job \in Job
        /\ (IfMatch(q) => q.seen # NoDoc)
    <2>1. q.pc \in InFlight
      BY DEF InFlight, Pc
    <2> QED
      BY <2>1, RequestFields DEF DocsOK, Placed
  <1>2. /\ new \in RequestRec /\ new.card = active /\ new.job = q.job /\ new.seen = q.seen
    BY <1>1 DEF RequestRec
  <1>3. pc \in Pc
    BY DEF AfterRead, ScanFirst, Pc
  <1>4. /\ active = NoDoc => pc \in {"create", "refused"}
        /\ pc \in {"create", "group", "check"} => q.job.op = "register"
        /\ pc = "target" => q.job.op \in {"default", "remove"}
        /\ pc \in {"overrides", "disable"} => q.job.op = "scan"
        /\ pc = "write" => q.job.op \in Plain
        /\ pc \in {"create", "group", "check", "target", "overrides", "disable", "write", "ok",
                   "refused"}
    <2>1. CASE q.job.op = "register"
      BY <2>1 DEF AfterRead
    <2>2. CASE q.job.op # "register" /\ (active = NoDoc \/ Changed)
      <3>1. pc = "refused"
        BY <2>2 DEF AfterRead
      <3> QED
        BY <3>1
    <2>3. CASE q.job.op # "register" /\ active # NoDoc /\ ~Changed
      <3>1. CASE q.job.op \in {"default", "remove"}
        BY <2>3, <3>1 DEF AfterRead
      <3>2. CASE q.job.op = "scan"
        BY <2>3, <3>2 DEF AfterRead, ScanFirst
      <3>3. CASE q.job.op \in Plain
        BY <2>3, <3>3 DEF AfterRead
      <3> QED
        BY <1>1, <2>3, <3>1, <3>2, <3>3 DEF Op
    <2> QED
      BY <2>1, <2>2, <2>3
  <1>s. q.job.op = "scan" => q.job.scan \in Verdict
    BY <1>1, CatalogConstants DEF ScanOf
  <1> HIDE DEF new, pc
  <1>5. new.job.op \in OpsAt(pc)
    BY <1>1, <1>2, <1>4 DEF OpsAt
  <1>6. Placed(new, pc)
    BY <1>1, <1>2, <1>4, <1>5, <1>s DEF Placed, IfMatch
  <1>7. Typed(Moved(new, pc))
    BY <1>2, <1>3, <1>6, MovedTypes
  <1> QED
    BY <1>7 DEF new, pc

\* What a request in flight says of itself.
LEMMA InPlace ==
  ASSUME RequestsOK, NEW s \in Slot
  PROVE  LET q == request[s]
         IN  /\ Typed(q) /\ q \in RequestRec
             /\ q.pc \in Pc /\ q.id \in 0..MaxRequests
             /\ q.card \in Doc \cup {NoDoc} /\ q.target \in Doc \cup {NoDoc}
             /\ q.seen \in Doc \cup {NoDoc}
             /\ Placed(q, q.pc)
             /\ Running(s) => q.job \in Job /\ q.job.op \in Op /\ q.job.arg \in Arg(q.job.op)
  <1>1. Typed(request[s])
    BY DEF RequestsOK
  <1> QED
    BY <1>1, RequestFields DEF Running, Placed

LEMMA ArriveTypes == ASSUME TypeInv, NEW s \in Slot, Arrive(s) PROVE TypeInv'
  <1>1. PICK job \in Job :
           LET q == [Idle EXCEPT !.pc = "read", !.id = started + 1, !.job = job]
           IN  /\ IfMatch(q) => active # NoDoc
               /\ request' = [request EXCEPT ![s] =
                      [q EXCEPT !.seen = IF IfMatch(q) THEN active ELSE NoDoc]]
               /\ disturbed' = disturbed \cup
                      UNION {Clash(job, request[o].job) : o \in {x \in Slot \ {s} : Running(x)}}
    BY DEF Arrive
  <1> DEFINE q == [Idle EXCEPT !.pc = "read", !.id = started + 1, !.job = job]
             new == [q EXCEPT !.seen = IF IfMatch(q) THEN active ELSE NoDoc]
  <1>2. started + 1 \in 0..MaxRequests /\ started' \in 0..MaxRequests
    BY CatalogConstants DEF Arrive, TypeInv, CountsOK
  <1>3. q \in RequestRec /\ q.job = job /\ q.pc = "read"
    BY <1>2 DEF Idle, RequestRec, Pc
  <1>4. /\ new \in RequestRec /\ new.job = job /\ new.pc = "read"
        /\ new.seen = IF IfMatch(q) THEN active ELSE NoDoc
    BY <1>3 DEF RequestRec, TypeInv, DocsOK
  <1>5. IfMatch(new) <=> IfMatch(q)
    BY <1>3, <1>4 DEF IfMatch
  <1>6. (IfMatch(q) => active # NoDoc) /\ request' = [request EXCEPT ![s] = new]
    BY <1>1
  <1>7. job.op \in Op
    BY CatalogConstants
  <1> HIDE DEF q, new
  <1>8. Placed(new, "read")
    BY <1>4, <1>5, <1>6, <1>7 DEF Placed, OpsAt
  <1>9. RequestsOK'
    BY <1>4, <1>6, <1>8, Moves DEF Typed, TypeInv
  <1>10. disturbed' \subseteq {"versions", "decisions", "scan"}
    BY <1>1 DEF Clash, TypeInv, CountsOK
  <1>11. DocsOK' /\ HistoryOK'
    BY DEF Arrive, docs, TypeInv, DocsOK, Revised, Stored, HistoryOK
  <1> QED
    BY <1>2, <1>9, <1>10, <1>11 DEF Arrive, TypeInv, CountsOK

\* The other steps leave the documents alone, or make one of the steps above.
LEMMA ReadingTypes ==
  ASSUME TypeInv, NEW s \in Slot,
         Read(s) \/ ReadFails(s) \/ Crash(s) \/ CheckVersion(s) \/ FindTarget(s) \/ ReadOverrides(s)
  PROVE  TypeInv' /\ UNCHANGED <<active, clock>> /\ inactive' = inactive
  <1> DEFINE q == request[s]
  <1> USE DEF TypeInv
  <1>0. UNCHANGED <<docs, clock, started, promised, decided>>
    BY DEF Read, ReadFails, Crash, CheckVersion, FindTarget, ReadOverrides, history
  <1>1. DocsOK' /\ HistoryOK'
    BY <1>0 DEF docs, DocsOK, Revised, Stored, HistoryOK
  <1>2. CASE Read(s)
    <2>1. Typed(Moved([q EXCEPT !.card = active], AfterRead(q)))
      BY <1>2, InPlace, ReadPlaces DEF Read
    <2>2. RequestsOK'
      BY <1>2, <2>1, Moves DEF Read
    <2> QED
      BY <1>0, <1>1, <1>2, <2>2 DEF Read, history, docs, CountsOK
  <1>3. CASE ReadFails(s)
    <2>1. PICK pc \in {"create", "refused"} :
             To(s, pc) /\ (pc = "create" => q.job.op = "register" /\ q.pc # "overrides")
      BY <1>3 DEF ReadFails
    <2>2. q.pc \in InFlight /\ pc \in Pc
      BY <1>3 DEF ReadFails, InFlight, Pc
    <2>3. pc \in InFlight => Placed(q, pc)
      BY <2>1, <2>2, InPlace DEF Placed, OpsAt, InFlight
    <2>4. RequestsOK'
      BY <2>1, <2>2, <2>3, ToMoves
    <2>5. CountsOK'
      BY <1>0, <1>3, FaultCounts DEF ReadFails, CountsOK
    <2> QED
      BY <1>0, <1>1, <2>4, <2>5 DEF docs
  <1>4. CASE Crash(s)
    <2>1. "dead" \in Pc /\ "dead" \notin InFlight
      BY DEF Pc, InFlight
    <2>2. RequestsOK'
      BY <1>4, <2>1, ToMoves DEF Crash
    <2>3. CountsOK'
      BY <1>0, <1>4, FaultCounts DEF Crash, CountsOK
    <2> QED
      BY <1>0, <1>1, <2>2, <2>3 DEF docs
  <1>5. CASE CheckVersion(s)
    <2>1. PICK pc \in {"create", "refused"} : To(s, pc)
      BY <1>5 DEF CheckVersion, Refuse
    <2>2. q.pc \in InFlight /\ pc \in Pc /\ q.job.op = "register"
      BY <1>5 DEF CheckVersion, InFlight, Pc
    <2>3. pc \in InFlight => Placed(q, pc)
      BY <2>1, <2>2, InPlace DEF Placed, OpsAt, InFlight
    <2>4. RequestsOK'
      BY <2>1, <2>2, <2>3, ToMoves
    <2> QED
      BY <1>0, <1>1, <1>5, <2>4 DEF CheckVersion, history, docs, CountsOK
  <1>6. CASE FindTarget(s)
    <2> DEFINE v == q.job.arg
               new == [q EXCEPT !.target = inactive[v]]
               pc == IF inactive[v] = NoDoc THEN "refused"
                     ELSE IF q.job.op = "remove" THEN "drop_target" ELSE "drop"
    <2>1. q.pc = "target" /\ request' = [request EXCEPT ![s] = Moved(new, pc)]
      BY <1>6 DEF FindTarget
    <2>2. /\ Running(s) /\ q.job.op \in {"default", "remove"} /\ q.card # NoDoc
          /\ (IfMatch(q) => q.seen # NoDoc)
      BY <2>1, InPlace DEF Running, InFlight, Pc, Placed, OpsAt
    <2>3. v \in Version /\ q.job \in Job
      BY <2>2, InPlace DEF Arg
    <2>4. inactive[v] \in Doc \cup {NoDoc}
      BY <2>3 DEF DocsOK
    <2>5. /\ new \in RequestRec /\ new.job = q.job /\ new.card = q.card /\ new.seen = q.seen
          /\ new.target = inactive[v]
      BY <2>4, InPlace DEF RequestRec
    <2>6. pc \in {"refused", "drop_target", "drop"} /\ (pc = "drop" => q.job.op = "default")
          /\ (pc # "refused" => inactive[v] # NoDoc)
      BY <2>2
    <2> HIDE DEF new, pc, v
    <2>7. pc \in Pc /\ Placed(new, pc)
      BY <2>2, <2>3, <2>5, <2>6 DEF Pc, Placed, OpsAt, IfMatch, Op
    <2>8. RequestsOK'
      BY <2>1, <2>5, <2>7, MovedTypes, Moves
    <2> QED
      BY <1>0, <1>1, <1>6, <2>8 DEF FindTarget, history, docs, CountsOK
  <1>7. CASE ReadOverrides(s)
    <2> DEFINE new == [q EXCEPT !.pc = "reconcile", !.card = active]
    <2>1. q.pc = "overrides" /\ request' = [request EXCEPT ![s] = new]
      BY <1>7 DEF ReadOverrides
    <2>2. /\ q.job.op \in {"scan", "register", "put", "patch"} /\ q.job \in Job
          /\ q.job.scan \in Verdict /\ (IfMatch(q) => q.seen # NoDoc)
      BY <2>1, InPlace DEF Running, InFlight, Pc, Placed, OpsAt
    <2>3. new \in RequestRec /\ new.job = q.job /\ new.pc = "reconcile" /\ new.seen = q.seen
      BY InPlace DEF RequestRec, DocsOK, Pc
    <2> HIDE DEF new
    <2>4. Typed(new)
      BY <2>2, <2>3 DEF Typed, Placed, OpsAt, IfMatch
    <2>5. RequestsOK'
      BY <2>1, <2>4, Moves
    <2> QED
      BY <1>0, <1>1, <1>7, <2>5 DEF ReadOverrides, history, docs, CountsOK
  <1> QED
    BY <1>2, <1>3, <1>4, <1>5, <1>6, <1>7

LEMMA LandedStep ==
  ASSUME NEW doc, NEW card, Landed(doc, card), active # NoDoc => (doc \in Doc /\ doc.rev = Rev)
  PROVE  ActiveStep
  BY DEF Landed, NoWrite, ActiveStep

\* A write that answers or fails, and that moves its request, with a card of its own.
LEMMA Left ==
  ASSUME TypeInv, NEW s \in Slot, NEW q, NEW pc \in Pc,
         request' = [request EXCEPT ![s] = Moved(q, pc)],
         pc \in InFlight => q \in RequestRec /\ Placed(q, pc),
         ActiveStep, InactiveStep, UNCHANGED started, HistoryOK', CountsOK'
  PROVE  TypeInv' /\ ActiveStep
  BY DocsStep, MovedTypes, Moves DEF TypeInv

LEMMA Written ==
  ASSUME TypeInv, NEW s \in Slot, NEW pc \in Pc, To(s, pc),
         pc \in InFlight => Placed(request[s], pc),
         ActiveStep, InactiveStep, UNCHANGED started, HistoryOK',
         UNCHANGED <<faults, disturbed>> \/ Fault(s)
  PROVE  TypeInv' /\ ActiveStep
  <1>1. DocsOK' /\ RequestsOK'
    BY DocsStep, ToMoves DEF TypeInv
  <1>2. CountsOK'
    BY FaultCounts DEF TypeInv, CountsOK
  <1> QED
    BY <1>1, <1>2 DEF TypeInv

\* A request with another card.
LEMMA Carded ==
  ASSUME NEW q \in RequestRec, NEW card \in Doc \cup {NoDoc}
  PROVE  LET new == [q EXCEPT !.card = card]
         IN  /\ new \in RequestRec /\ new.card = card /\ new.pc = q.pc /\ new.id = q.id
             /\ new.job = q.job /\ new.target = q.target /\ new.seen = q.seen
  <1>1. [q EXCEPT !.card = card] \in RequestRec
    BY DEF RequestRec
  <1> QED
    BY <1>1 DEF RequestRec

\* Where a request goes once it has been answered.
LEMMA AnswerPlaces ==
  ASSUME NEW q, q.job \in Job, q.job.op # "scan"
  PROVE  LET pc == AfterAnswer(q)
         IN  /\ pc \in {"ok", "mark", "overrides", "disable"} /\ pc \in Pc
             /\ pc # "ok" => /\ q.job.scan \in Verdict
                             /\ q.job.op \in {"register", "put", "patch"}
             /\ pc = "mark" <=> Tags(q.job)
  <1>1. q.job.scan \in ScanOf(q.job.op) /\ NoDoc \notin Verdict
    BY CatalogConstants
  <1>2. q.job.scan # NoDoc => /\ q.job.scan \in Verdict
                             /\ q.job.op \in {"register", "put", "patch"}
    BY <1>1 DEF ScanOf
  <1> QED
    BY <1>2 DEF AfterAnswer, ScanFirst, Tags, Pc

\* A request that has been answered, with the card its scan may write.
LEMMA AnsweredPlaced ==
  ASSUME NEW q, Typed(q), q.job \in Job, q.job.op # "scan", NEW card \in Doc,
         IfMatch(q) => q.seen # NoDoc, AfterAnswer(q) \in InFlight
  PROVE  LET new == [q EXCEPT !.card = card]
         IN  new \in RequestRec /\ Placed(new, AfterAnswer(q))
  <1> DEFINE new == [q EXCEPT !.card = card]
             pc == AfterAnswer(q)
  <1>1. new \in RequestRec /\ new.card = card /\ new.job = q.job /\ new.seen = q.seen
    BY Carded DEF Typed
  <1>2. /\ pc \in {"mark", "overrides", "disable"} /\ q.job.scan \in Verdict
        /\ q.job.op \in {"register", "put", "patch"}
        /\ pc = "mark" => Tags(q.job)
    BY AnswerPlaces DEF InFlight
  <1> HIDE DEF new, pc
  <1>3. new.job.op \in OpsAt(pc)
    BY <1>1, <1>2 DEF OpsAt
  <1>4. Placed(new, pc)
    BY <1>1, <1>2, <1>3, CatalogConstants DEF Placed, IfMatch
  <1> QED
    BY <1>1, <1>4 DEF new, pc

LEMMA VersionTypes ==
  ASSUME TypeInv, NEW s \in Slot,
         Group(s) \/ CreateServer(s) \/ CreateVersion(s) \/ List(s)
  PROVE  TypeInv' /\ ActiveStep
  <1> DEFINE q == request[s]
  <1> USE DEF TypeInv
  <1>0. /\ q \in RequestRec /\ Placed(q, q.pc) /\ Typed(q)
        /\ q.card \in Doc \cup {NoDoc} /\ active \in Doc \cup {NoDoc} /\ clock \in Nat
    BY InPlace DEF DocsOK
  <1>1. CASE Group(s)
    <2> DEFINE card == Grouped(q.card)
               new == [q EXCEPT !.pc = "check", !.card = card]
    <2>1. q.pc = "group" /\ q.card \in Doc /\ q.job.op = "register" /\ q.job \in Job
      BY <1>0, <1>1 DEF Group, Placed, OpsAt, InFlight, Pc
    <2>2. card \in Doc /\ card # NoDoc
      BY <2>1, GroupedFields, CatalogConstants
    <2>3. request' = [request EXCEPT ![s] = new]
      BY <1>1, <1>0 DEF Group, RequestsOK, RequestRec
    <2>4. new \in RequestRec /\ new.pc = "check" /\ new.job = q.job /\ new.card = card
      BY <1>0, <2>2 DEF RequestRec, Pc
    <2>5. active # NoDoc => Overlay(active, card) \in Doc /\ Overlay(active, card).rev = Rev
      BY <1>0, <2>2, OverlayFields
    <2>6. \/ Landed(Overlay(active, card), card) /\ UNCHANGED faults /\ UNCHANGED disturbed
          \/ Fault(s) /\ NoWrite
      BY <1>1 DEF Group
    <2> HIDE DEF card, new
    <2>7. ActiveStep
      BY <2>5, <2>6, LandedStep DEF NoWrite, ActiveStep
    <2>8. Typed(new)
      BY <2>1, <2>2, <2>4 DEF Typed, Placed, OpsAt, IfMatch
    <2>9. RequestsOK'
      BY <2>3, <2>8, Moves
    <2>10. InactiveStep /\ HistoryOK' /\ UNCHANGED started
      BY <1>1 DEF Group, InactiveStep, HistoryOK
    <2>11. CountsOK'
      BY <2>6, <2>10, FaultCounts DEF CountsOK
    <2> QED
      BY <2>7, <2>9, <2>10, <2>11, DocsStep
  <1>2. CASE CreateServer(s)
    <2>1. q.pc = "create" /\ q.job.op = "register" /\ q.job \in Job
      BY <1>0, <1>2 DEF CreateServer, Placed, InFlight, Pc
    <2>2. q.job.arg \in Version /\ NewServer(q) \in Doc
      BY <1>0, <2>1, NewFields, CatalogConstants DEF Arg
    <2>3. Inserted(NewServer(q)) \in Doc /\ Inserted(NewServer(q)).rev = Rev
      BY <1>0, <2>2, InsertedFields
    <2>4. ActiveStep /\ InactiveStep /\ UNCHANGED started
      BY <1>2, <2>3 DEF CreateServer, NoWrite, ActiveStep, InactiveStep
    <2>5. \/ request' = [request EXCEPT ![s] =
                Moved([q EXCEPT !.card = NewServer(q)], AfterAnswer(q))]
          \/ To(s, "refused")
      BY <1>2 DEF CreateServer, Refuse
    <2>6. (IfMatch(q) => q.seen # NoDoc) /\ AfterAnswer(q) \in Pc
      BY <2>1, AnswerPlaces DEF IfMatch
    <2>7. HistoryOK'
      <3>1. NewServer(q).overrides = [t \in Tool |-> "none"]
        BY <1>0, <2>1, NewFields
      <3>2. \/ UNCHANGED <<promised, decided>>
            \/ /\ promised' = {q.job.arg}
               /\ decided' = [enabled |-> FALSE, tools |-> [t \in Tool |-> "none"]]
        BY <1>2, <3>1 DEF CreateServer, history
      <3> DEFINE none == [t \in Tool |-> "none"]
      <3>3. none \in [Tool -> Admin \cup {"none"}]
        OBVIOUS
      <3> HIDE DEF none
      <3>4. [enabled |-> FALSE, tools |-> none] \in [enabled : BOOLEAN, tools : [Tool -> Admin \cup {"none"}]]
        BY <3>3
      <3> QED
        BY <2>2, <3>2, <3>4 DEF HistoryOK, none
    <2>8. UNCHANGED <<faults, disturbed>> \/ Fault(s)
      BY <1>2 DEF CreateServer, history
    <2>9. CASE To(s, "refused")
      <3>1. "refused" \in Pc /\ "refused" \notin InFlight
        BY DEF Pc, InFlight
      <3> QED
        BY <2>4, <2>7, <2>8, <2>9, <3>1, Written
    <2>10. CASE request' = [request EXCEPT ![s] =
                   Moved([q EXCEPT !.card = NewServer(q)], AfterAnswer(q))]
      <3>1. CountsOK'
        BY <2>4, <2>8, FaultCounts DEF CountsOK
      <3>2. AfterAnswer(q) \in InFlight =>
               [q EXCEPT !.card = NewServer(q)] \in RequestRec
               /\ Placed([q EXCEPT !.card = NewServer(q)], AfterAnswer(q))
        BY <1>0, <2>1, <2>2, <2>6, AnsweredPlaced
      <3> QED
        BY <2>4, <2>6, <2>7, <2>10, <3>1, <3>2, Left
    <2> QED
      BY <2>5, <2>9, <2>10
  <1>3. CASE CreateVersion(s)
    <2>1. q.pc = "create" /\ q.job.op = "register" /\ q.job \in Job /\ q.card # NoDoc
      BY <1>0, <1>3 DEF CreateVersion, Placed, InFlight, Pc
    <2>2. q.job.arg \in Version /\ NewVersion(q) \in Doc
      BY <1>0, <2>1, NewFields, CatalogConstants DEF Arg
    <2>3. Inserted(NewVersion(q)) \in Doc /\ Inserted(NewVersion(q)).rev = Rev
      BY <1>0, <2>2, InsertedFields
    <2>4. ActiveStep /\ InactiveStep /\ UNCHANGED started
      BY <1>3, <2>2, <2>3 DEF CreateVersion, ActiveStep, InactiveStep
    <2>5. PICK pc \in {"list", "refused"} : To(s, pc)
      BY <1>3 DEF CreateVersion, Refuse
    <2>6. pc \in Pc /\ (pc \in InFlight => Placed(q, pc))
      BY <1>0, <2>1, <2>5 DEF Pc, InFlight, Placed, OpsAt, IfMatch
    <2>7. HistoryOK' /\ (UNCHANGED <<faults, disturbed>> \/ Fault(s))
      BY <1>3 DEF CreateVersion, HistoryOK
    <2> QED
      BY <2>4, <2>5, <2>6, <2>7, Written
  <1>4. CASE List(s)
    <2>1. q.pc = "list" /\ q.job.op \in {"register", "remove"} /\ q.job \in Job /\ q.card # NoDoc
      BY <1>0, <1>4 DEF List, Placed, OpsAt, InFlight, Pc
    <2>2. q.job.arg \in Version /\ Listed(q) \in Doc
      BY <1>0, <2>1, ListedFields, CatalogConstants DEF Arg
    <2>3. active # NoDoc => Overlay(active, Listed(q)) \in Doc /\ Overlay(active, Listed(q)).rev = Rev
      BY <1>0, <2>2, OverlayFields
    <2>4. \/ /\ Landed(Overlay(active, Listed(q)), Listed(q)) /\ UNCHANGED faults
             /\ disturbed' = disturbed \cup (IF Tags(q.job) THEN Clash(q.job, q.job) ELSE {})
          \/ Fault(s) /\ NoWrite
      BY <1>4 DEF List
    <2>5. ActiveStep /\ InactiveStep /\ UNCHANGED started
      BY <1>4, <2>3, <2>4, LandedStep DEF List, NoWrite, ActiveStep, InactiveStep
    <2>6. request' = [request EXCEPT ![s] =
             Moved([q EXCEPT !.card = VersionCard(q)], AfterAnswer(q))]
      BY <1>4 DEF List
    <2>7. HistoryOK'
      BY <1>4, <2>2 DEF List, HistoryOK
    <2>8. CountsOK'
      <3>1. Clash(q.job, q.job) \subseteq {"versions", "decisions", "scan"}
        BY DEF Clash
      <3> QED
        BY <2>4, <2>5, <3>1, FaultCounts DEF CountsOK
    <2>9. AfterAnswer(q) \in Pc /\ (IfMatch(q) => q.seen # NoDoc)
      BY <2>1, AnswerPlaces DEF IfMatch
    <2>10. AfterAnswer(q) \in InFlight =>
             [q EXCEPT !.card = VersionCard(q)] \in RequestRec
             /\ Placed([q EXCEPT !.card = VersionCard(q)], AfterAnswer(q))
      <3>1. SUFFICES ASSUME AfterAnswer(q) \in InFlight
                     PROVE  /\ [q EXCEPT !.card = VersionCard(q)] \in RequestRec
                            /\ Placed([q EXCEPT !.card = VersionCard(q)], AfterAnswer(q))
        OBVIOUS
      <3>2. q.job.op = "register"
        BY <2>1, <3>1, AnswerPlaces DEF InFlight
      <3>3. VersionCard(q) \in Doc
        BY <1>0, <2>1, <3>2, NewFields
      <3> QED
        BY <1>0, <2>1, <2>9, <3>1, <3>3, AnsweredPlaced
    <2> QED
      BY <2>5, <2>6, <2>7, <2>8, <2>9, <2>10, Left
  <1> QED
    BY <1>1, <1>2, <1>3, <1>4

LEMMA SwapTypes ==
  ASSUME TypeInv, NEW s \in Slot,
         RemoveTarget(s) \/ DropActive(s) \/ DropTarget(s) \/ Promote(s) \/ Demote(s) \/ Delete(s)
  PROVE  TypeInv' /\ ActiveStep
  <1> DEFINE q == request[s]
  <1> USE DEF TypeInv
  <1>0. /\ q \in RequestRec /\ Placed(q, q.pc) /\ Typed(q) /\ q.pc \in Pc
        /\ q.card \in Doc \cup {NoDoc} /\ active \in Doc \cup {NoDoc} /\ clock \in Nat
    BY InPlace DEF DocsOK
  <1>1. CASE RemoveTarget(s)
    <2>1. q.pc = "drop_target" /\ q.job.op = "remove" /\ q.job \in Job /\ q.card # NoDoc
      BY <1>0, <1>1 DEF RemoveTarget, Placed, InFlight, Pc
    <2>2. q.job.arg \in Version
      BY <2>1, CatalogConstants DEF Arg
    <2>3. ActiveStep /\ InactiveStep /\ UNCHANGED started
      BY <1>1, <2>2 DEF RemoveTarget, ActiveStep, InactiveStep
    <2>4. PICK pc \in {"list", "ok", "refused"} : To(s, pc)
      BY <1>1 DEF RemoveTarget, Refuse
    <2>5. pc \in Pc /\ (pc \in InFlight => Placed(q, pc))
      BY <1>0, <2>1, <2>4 DEF Pc, InFlight, Placed, OpsAt, IfMatch
    <2>6. HistoryOK' /\ (UNCHANGED <<faults, disturbed>> \/ Fault(s))
      BY <1>1 DEF RemoveTarget, HistoryOK
    <2> QED
      BY <2>3, <2>4, <2>5, <2>6, Written
  <1>2. CASE DropActive(s)
    <2>1. q.pc = "drop" /\ To(s, "drop_target")
      BY <1>2 DEF DropActive
    <2>2. "drop_target" \in Pc /\ Placed(q, "drop_target")
      BY <1>0, <2>1 DEF Pc, InFlight, Placed, OpsAt
    <2>3. ActiveStep /\ InactiveStep /\ UNCHANGED started /\ HistoryOK'
          /\ (UNCHANGED <<faults, disturbed>> \/ Fault(s))
      BY <1>2 DEF DropActive, ActiveStep, InactiveStep, HistoryOK
    <2> QED
      BY <2>1, <2>2, <2>3, Written
  <1>3. CASE DropTarget(s)
    <2>1. q.pc = "drop_target" /\ q.job.op = "default" /\ q.job \in Job /\ To(s, "promote")
      BY <1>0, <1>3 DEF DropTarget, Placed, InFlight, Pc
    <2>2. "promote" \in Pc /\ Placed(q, "promote")
      BY <1>0, <2>1 DEF Pc, InFlight, Placed, OpsAt, IfMatch
    <2>3. q.job.arg \in Version
      BY <2>1, CatalogConstants DEF Arg
    <2>4. ActiveStep /\ InactiveStep /\ UNCHANGED started /\ HistoryOK'
          /\ (UNCHANGED <<faults, disturbed>> \/ Fault(s))
      BY <1>3, <2>3 DEF DropTarget, ActiveStep, InactiveStep, HistoryOK
    <2> QED
      BY <2>1, <2>2, <2>4, Written
  <1>4. CASE Promote(s)
    <2> DEFINE new == Inserted(Promoted(q))
    <2>1. /\ q.pc = "promote" /\ q.job.op = "default" /\ q.job \in Job /\ To(s, "demote")
          /\ q.card # NoDoc /\ q.target # NoDoc
      BY <1>0, <1>4 DEF Promote, Placed, OpsAt, InFlight, Pc
    <2>2. "demote" \in Pc /\ Placed(q, "demote")
      BY <1>0, <2>1 DEF Pc, InFlight, Placed, OpsAt, IfMatch
    <2>3. Promoted(q) \in Doc
      BY <1>0, <2>1, SwapFields
    <2>4. new \in Doc /\ new.rev = Rev
      BY <1>0, <2>3, InsertedFields
    <2>5. /\ \/ active' = new /\ Tick /\ decided' = Decisions(new) /\ UNCHANGED <<faults, disturbed>>
             \/ NoWrite /\ UNCHANGED <<faults, disturbed, decided>>
             \/ Fault(s) /\ NoWrite /\ UNCHANGED decided
          /\ UNCHANGED <<inactive, started, promised>>
      BY <1>4 DEF Promote
    <2> HIDE DEF new
    <2>6. ActiveStep /\ InactiveStep /\ UNCHANGED started
      BY <2>4, <2>5 DEF NoWrite, ActiveStep, InactiveStep
    <2>7. HistoryOK' /\ (UNCHANGED <<faults, disturbed>> \/ Fault(s))
      BY <2>4, <2>5, DecisionsType DEF HistoryOK
    <2> QED
      BY <2>1, <2>2, <2>6, <2>7, Written
  <1>5. CASE Demote(s)
    <2>1. q.pc = "demote" /\ q.card \in Doc /\ To(s, "ok")
      BY <1>0, <1>5 DEF Demote, Placed
    <2>2. Demoted(q) \in Doc /\ q.card.ver \in Version
      BY <1>0, <2>1, SwapFields, CatalogConstants DEF Doc
    <2>3. Inserted(Demoted(q)) \in Doc /\ Inserted(Demoted(q)).rev = Rev
      BY <1>0, <2>2, InsertedFields
    <2>4. ActiveStep /\ InactiveStep /\ UNCHANGED started /\ HistoryOK'
          /\ (UNCHANGED <<faults, disturbed>> \/ Fault(s))
      BY <1>5, <2>2, <2>3 DEF Demote, ActiveStep, InactiveStep, HistoryOK
    <2>5. "ok" \in Pc /\ "ok" \notin InFlight
      BY DEF Pc, InFlight
    <2> QED
      BY <2>1, <2>4, <2>5, Written
  <1>6. CASE Delete(s)
    <2>1. PICK pc \in {"ok", "refused"} : To(s, pc)
      BY <1>6 DEF Delete, Refuse
    <2>2. pc \in Pc /\ pc \notin InFlight
      BY <2>1 DEF Pc, InFlight
    <2>3. ActiveStep /\ InactiveStep /\ UNCHANGED started /\ HistoryOK'
          /\ (UNCHANGED <<faults, disturbed>> \/ Fault(s))
      BY <1>6 DEF Delete, docs, ActiveStep, InactiveStep, HistoryOK
    <2> QED
      BY <2>1, <2>2, <2>3, Written
  <1> QED
    BY <1>1, <1>2, <1>3, <1>4, <1>5, <1>6

LEMMA EditTypes ==
  ASSUME TypeInv, NEW s \in Slot,
         Write(s) \/ Unset(s) \/ Mark(s) \/ Reconcile(s) \/ Disable(s)
  PROVE  TypeInv' /\ ActiveStep /\ inactive' = inactive
  <1> DEFINE q == request[s]
  <1> USE DEF TypeInv
  <1>0. /\ q \in RequestRec /\ Placed(q, q.pc) /\ Typed(q) /\ q.pc \in Pc
        /\ q.card \in Doc \cup {NoDoc} /\ active \in Doc \cup {NoDoc} /\ clock \in Nat
    BY InPlace DEF DocsOK
  <1>1. CASE Write(s)
    <2>1. /\ q.pc = "write" /\ q.job.op \in {"put", "patch", "toggle", "tool", "clear", "fetch"}
          /\ q.job \in Job /\ q.card \in Doc /\ (IfMatch(q) => q.seen # NoDoc)
      BY <1>0, <1>1 DEF Write, Placed, InFlight, Pc
    <2>2. active # NoDoc => Edited(q) \in Doc /\ Edited(q).rev = Rev
      <3>1. q.job.op # "delete"
        BY <2>1
      <3> QED
        BY <2>1, <3>1, EditedFields DEF EditOf
    <2>3. /\ \/ Landed(Edited(q), q.card) /\ UNCHANGED <<faults, disturbed>>
             \/ NoWrite /\ UNCHANGED <<faults, disturbed>>
             \/ Fault(s) /\ NoWrite
          /\ decided' = decided \/ decided' = Established(q)
          /\ UNCHANGED <<inactive, started, promised>>
      BY <1>1 DEF Write
    <2>4. \/ request' = [request EXCEPT ![s] =
                Moved([q EXCEPT !.card = Merged(q)], AfterWrite(q))]
          \/ To(s, "refused")
      BY <1>1 DEF Write, Refuse
    <2>5. /\ AfterWrite(q) \in Pc
          /\ AfterWrite(q) \in InFlight =>
                [q EXCEPT !.card = Merged(q)] \in RequestRec
                /\ Placed([q EXCEPT !.card = Merged(q)], AfterWrite(q))
      <3>1. Merged(q) \in Doc
        BY <1>0, <2>1, InPlace, TextFields, CatalogConstants DEF Merged
      <3>2. CASE q.job.op = "clear"
        <4>1. AfterWrite(q) = "unset" /\ "unset" \in Pc
          BY <3>2 DEF AfterWrite, Pc
        <4> DEFINE new == [q EXCEPT !.card = Merged(q)]
        <4>2. new \in RequestRec /\ new.job = q.job /\ new.seen = q.seen
          BY <1>0, <3>1, Carded
        <4> HIDE DEF new
        <4>3. new \in RequestRec /\ Placed(new, "unset")
          BY <2>1, <3>2, <4>2 DEF Placed, OpsAt, IfMatch
        <4> QED
          BY <4>1, <4>3 DEF new
      <3>3. CASE q.job.op # "clear"
        <4>1. AfterWrite(q) = AfterAnswer(q) /\ q.job.op # "scan"
          BY <2>1, <3>3 DEF AfterWrite
        <4> QED
          BY <1>0, <2>1, <3>1, <4>1, AnswerPlaces, AnsweredPlaced
      <3> QED
        BY <3>2, <3>3
    <2>6. ActiveStep /\ InactiveStep
      BY <2>2, <2>3, LandedStep DEF NoWrite, ActiveStep, InactiveStep
    <2>7. HistoryOK'
      <3>1. CASE q.job.op = "toggle"
        <4>1. q.job.arg \in BOOLEAN
          BY <2>1, <3>1, CatalogConstants DEF Arg
        <4> QED
          BY <2>3, <3>1, <4>1 DEF Established, HistoryOK
      <3>2. CASE q.job.op = "tool"
        <4>1. q.job.arg[1] \in Tool /\ q.job.arg[2] \in Admin
          BY <2>1, <3>2, CatalogConstants DEF Arg
        <4> QED
          BY <2>3, <3>2, <4>1 DEF Established, HistoryOK
      <3>3. CASE q.job.op \notin {"toggle", "tool"}
        BY <2>3, <3>3 DEF Established, HistoryOK
      <3> QED
        BY <3>1, <3>2, <3>3
    <2>8. CASE To(s, "refused")
      <3>1. "refused" \in Pc /\ "refused" \notin InFlight
        BY DEF Pc, InFlight
      <3> QED
        BY <2>3, <2>6, <2>7, <2>8, <3>1, Written
    <2>9. CASE request' = [request EXCEPT ![s] =
                  Moved([q EXCEPT !.card = Merged(q)], AfterWrite(q))]
      <3>1. CountsOK'
        BY <2>3, FaultCounts DEF CountsOK
      <3> QED
        BY <2>3, <2>5, <2>6, <2>7, <2>9, <3>1, Left
    <2> QED
      BY <2>3, <2>4, <2>8, <2>9
  <1>2. CASE Unset(s)
    <2>1. PICK pc \in {"ok", "refused"} : To(s, pc)
      BY <1>2 DEF Unset, Refuse
    <2>2. pc \in Pc /\ pc \notin InFlight
      BY <2>1 DEF Pc, InFlight
    <2>3. ActiveStep /\ InactiveStep /\ UNCHANGED started /\ HistoryOK'
          /\ (UNCHANGED <<faults, disturbed>> \/ Fault(s))
      BY <1>2 DEF Unset, ActiveStep, InactiveStep, HistoryOK
    <2> QED
      BY <1>2, <2>1, <2>2, <2>3, Written DEF Unset
  <1>3. CASE Reconcile(s)
    <2>1. /\ q.pc = "reconcile" /\ q.job.op \in {"scan", "register", "put", "patch"}
          /\ q.job \in Job /\ q.job.scan \in Verdict
      BY <1>0, <1>3 DEF Reconcile, Placed, OpsAt, InFlight, Pc
    <2>2. Reconciled(q) \in [Tool -> Decision]
      BY DEF Reconciled, Admin, Decision
    <2>3. active # NoDoc => OverridesReplaced(active, Reconciled(q)) \in Doc
                            /\ OverridesReplaced(active, Reconciled(q)).rev = Rev
      BY <1>0, <2>2, OverrideFields
    <2>4. PICK pc \in {"disable", "ok", "refused"} : To(s, pc)
      BY <1>3 DEF Reconcile, AfterReconcile, Refuse
    <2>5. pc \in Pc /\ (pc \in InFlight => Placed(q, pc))
      BY <1>0, <2>1, <2>4 DEF Pc, InFlight, Placed, OpsAt, IfMatch
    <2>6. /\ \/ Landed(OverridesReplaced(active, Reconciled(q)), q.card) /\ UNCHANGED <<faults, disturbed>>
             \/ Fault(s) /\ NoWrite
          /\ UNCHANGED <<inactive, started, promised, decided>>
      BY <1>3 DEF Reconcile
    <2>7. ActiveStep /\ InactiveStep
      BY <2>3, <2>6, LandedStep DEF NoWrite, ActiveStep, InactiveStep
    <2>8. HistoryOK'
      BY <2>6 DEF HistoryOK
    <2> QED
      BY <2>4, <2>5, <2>6, <2>7, <2>8, Written
  <1>4. CASE Disable(s)
    <2>1. active # NoDoc => StateSet(active, FALSE) \in Doc /\ StateSet(active, FALSE).rev = Rev
      BY <1>0, StateFields
    <2>2. /\ \/ Landed(StateSet(active, FALSE), q.card) /\ UNCHANGED <<faults, disturbed>>
             \/ Fault(s) /\ NoWrite
          /\ decided' = decided \/ decided' = [decided EXCEPT !.enabled = FALSE]
          /\ UNCHANGED <<inactive, started, promised>> /\ To(s, "ok")
      BY <1>4 DEF Disable
    <2>3. ActiveStep /\ InactiveStep
      BY <2>1, <2>2, LandedStep DEF NoWrite, ActiveStep, InactiveStep
    <2>4. HistoryOK'
      BY <2>2 DEF HistoryOK
    <2>5. "ok" \in Pc /\ "ok" \notin InFlight
      BY DEF Pc, InFlight
    <2> QED
      BY <2>2, <2>3, <2>4, <2>5, Written
  <1>5. CASE Mark(s)
    <2>1. /\ q.pc = "mark" /\ q.card \in Doc /\ q.job \in Job
          /\ q.job.op \in {"register", "put", "patch"} /\ q.job.scan \in Verdict
      BY <1>0, <1>5 DEF Mark, Placed, OpsAt, InFlight, Pc
    <2>2. active # NoDoc => Overlay(active, q.card) \in Doc /\ Overlay(active, q.card).rev = Rev
      BY <1>0, <2>1, OverlayFields
    <2>3. PICK pc \in {"disable", "overrides"} : To(s, pc)
      BY <1>5 DEF Mark, ScanFirst
    <2>4. pc \in Pc /\ Placed(q, pc)
      BY <1>0, <2>1, <2>3 DEF Pc, InFlight, Placed, OpsAt
    <2>5. /\ \/ Landed(Overlay(active, q.card), q.card) /\ UNCHANGED <<faults, disturbed>>
             \/ Fault(s) /\ NoWrite
          /\ UNCHANGED <<inactive, started, promised, decided>>
      BY <1>5 DEF Mark
    <2>6. ActiveStep /\ InactiveStep
      BY <2>2, <2>5, LandedStep DEF NoWrite, ActiveStep, InactiveStep
    <2>7. HistoryOK'
      BY <2>5 DEF HistoryOK
    <2> QED
      BY <2>3, <2>4, <2>5, <2>6, <2>7, Written
  <1> QED
    BY <1>1, <1>2, <1>3, <1>4, <1>5

LEMMA TypeInit == Init => TypeInv
  <1> SUFFICES ASSUME NEW s \in First, Init, active = s.active, inactive = s.inactive,
                      clock = s.clock, promised = Versions(s),
                      decided = IF s.active = NoDoc
                                THEN [enabled |-> FALSE, tools |-> [t \in Tool |-> "none"]]
                                ELSE Decisions(s.active)
               PROVE  TypeInv
    BY DEF Init
  <1>1. WellStored(s)
    BY FirstStored
  <1>2. DocsOK
    <2>1. Revised
      BY <1>1, CatalogConstants DEF WellStored, Revised, Stored
    <2> QED
      BY <1>1, <2>1 DEF WellStored, DocsOK
  <1>3. RequestsOK
    <2>1. Typed(Idle)
      BY CatalogConstants DEF Typed, Idle, RequestRec, Placed, OpsAt, NoJob, Op, Pc, InFlight
    <2>2. request = [r \in Slot |-> Idle] /\ Idle \in RequestRec
      BY <2>1 DEF Init, Typed
    <2> QED
      BY <2>1, <2>2 DEF RequestsOK
  <1>4. CountsOK
    BY CatalogConstants DEF Init, CountsOK
  <1>5. HistoryOK
    <2>1. promised \subseteq Version
      <3>1. active \in Doc \cup {NoDoc}
        BY <1>2 DEF DocsOK
      <3> QED
        BY <3>1 DEF Versions, Doc
    <2>2. decided \in [enabled : BOOLEAN, tools : [Tool -> Admin \cup {"none"}]]
      BY <1>2, DecisionsType DEF DocsOK
    <2> QED
      BY <2>1, <2>2 DEF HistoryOK
  <1> QED
    BY <1>2, <1>3, <1>4, <1>5 DEF TypeInv

\* Every step keeps the types and does to the active document one of the things above.
LEMMA TypeStep ==
  ASSUME TypeInv, NEW s \in Slot, Step(s)
  PROVE  TypeInv' /\ ActiveStep
  <1>1. CASE Arrive(s)
    BY <1>1, ArriveTypes DEF Arrive, docs, ActiveStep
  <1>2. CASE Read(s) \/ ReadFails(s) \/ Crash(s) \/ CheckVersion(s) \/ FindTarget(s) \/ ReadOverrides(s)
    BY <1>2, ReadingTypes DEF ActiveStep
  <1>3. CASE Group(s) \/ CreateServer(s) \/ CreateVersion(s) \/ List(s)
    BY <1>3, VersionTypes
  <1>4. CASE RemoveTarget(s) \/ DropActive(s) \/ DropTarget(s) \/ Promote(s) \/ Demote(s) \/ Delete(s)
    BY <1>4, SwapTypes
  <1>5. CASE Write(s) \/ Unset(s) \/ Mark(s) \/ Reconcile(s) \/ Disable(s)
    BY <1>5, EditTypes
  <1> QED
    BY <1>1, <1>2, <1>3, <1>4, <1>5 DEF Step

LEMMA TypeNext == TypeInv /\ [Next]_vars => TypeInv'
  <1>1. TypeInv /\ UNCHANGED vars => TypeInv'
    BY DEF vars, docs, history, TypeInv, DocsOK, Revised, Stored, RequestsOK, CountsOK, HistoryOK
  <1> QED
    BY <1>1, Steps, TypeStep

LEMMA TypeInvariance == Spec => []TypeInv
  BY TypeInit, TypeNext, PTL DEF Spec

\* Whatever requests overlap, fail or die, the documents stay well-formed and no
\* two of them ever carry the same updated_at.
THEOREM TypeCorrect == Spec => []TypeOK
  <1>1. TypeInv => TypeOK
    <2> SUFFICES ASSUME TypeInv PROVE TypeOK
      OBVIOUS
    <2> DEFINE stored == {d \in {active} \cup {inactive[v] : v \in Version} : d # NoDoc}
    <2>1. \A d \in stored : d.rev \in 1..clock
      BY DEF TypeInv, DocsOK, Revised, Stored
    <2>2. \A d, e \in stored : d.rev = e.rev => d = e
      BY DEF TypeInv, DocsOK, Revised, Stored
    <2>3. ASSUME NEW s \in Slot
          PROVE  LET q == request[s]
                 IN  /\ q.pc \in Pc /\ q.id \in 0..MaxRequests /\ q.job \in Job \cup {NoJob}
                     /\ {q.card, q.target, q.seen} \subseteq Doc \cup {NoDoc}
      <3>1. Typed(request[s])
        BY DEF TypeInv, RequestsOK
      <3> QED
        BY <3>1, RequestFields
    <2> QED
      BY <2>1, <2>2, <2>3 DEF TypeInv, TypeOK, DocsOK, CountsOK, HistoryOK
  <1> QED
    BY <1>1, TypeInvariance, PTL

-----------------------------------------------------------------------------
(* Conditional edits *)

LEMMA MovedFields ==
  ASSUME NEW q \in RequestRec, NEW pc \in Pc
  PROVE  /\ Moved(q, pc).pc = pc
         /\ pc \in InFlight => LET r == Moved(q, pc)
               IN  r.job = q.job /\ r.seen = q.seen /\ r.card = q.card /\ r.target = q.target
  BY DEF Moved, RequestRec, Idle

\* What a step does to its own request, and to no other.
LEMMA Own ==
  ASSUME TypeInv, NEW s \in Slot, Step(s), ~Arrive(s)
  PROVE  LET q == request[s]
             r == request'[s]
         IN  /\ Running(s)
             /\ \A o \in Slot \ {s} : request'[o] = request[o]
             /\ Running(s)' =>
                   /\ r.job = q.job /\ r.seen = q.seen
                   /\ \/ r.card = q.card
                      \/ (Read(s) \/ ReadOverrides(s)) /\ r.card = active
                      \/ Group(s) /\ r.card = Grouped(q.card)
                      \/ CreateServer(s) /\ r.card = NewServer(q)
                      \/ List(s) /\ r.card = VersionCard(q) /\ q.job.op = "register"
                      \/ Write(s) /\ r.card = Merged(q)
                   /\ r.target = q.target \/ FindTarget(s)
             /\ r.pc = "write" => Read(s)
  <1> DEFINE q == request[s]
             r == request'[s]
  <1>0. q \in RequestRec /\ request \in [Slot -> RequestRec]
    BY InPlace DEF TypeInv, RequestsOK
  <1>1. ASSUME NEW pc \in Pc, NEW new, request' = [request EXCEPT ![s] = Moved(new, pc)],
               pc \in InFlight => new \in RequestRec /\ new.job = q.job /\ new.seen = q.seen
        PROVE  /\ \A o \in Slot \ {s} : request'[o] = request[o]
               /\ r.pc = pc
               /\ Running(s)' => r.job = q.job /\ r.seen = q.seen /\ r.card = new.card
                                 /\ r.target = new.target
    <2>1. r = Moved(new, pc)
      BY <1>0, <1>1
    <2>2. CASE pc \in InFlight
      BY <1>0, <1>1, <2>1, <2>2, MovedFields DEF Running
    <2>3. CASE pc \notin InFlight
      <3>1. r.pc = pc
        BY <2>1, <2>3 DEF Moved, Idle
      <3> QED
        BY <1>0, <1>1, <2>3, <3>1 DEF Running
    <2> QED
      BY <2>2, <2>3
  <1>2. ASSUME NEW pc \in Pc, pc # "write", To(s, pc), q.pc \in InFlight
        PROVE  /\ Running(s)
               /\ \A o \in Slot \ {s} : request'[o] = request[o]
               /\ Running(s)' => r.job = q.job /\ r.seen = q.seen /\ r.card = q.card
                                 /\ r.target = q.target
               /\ r.pc # "write"
    BY <1>0, <1>1, <1>2 DEF To, Running
  <1>3. CASE Read(s)
    <2> DEFINE new == [q EXCEPT !.card = active]
    <2>1. /\ new \in RequestRec /\ new.job = q.job /\ new.seen = q.seen /\ new.card = active
          /\ new.target = q.target
      BY <1>0 DEF RequestRec, TypeInv, DocsOK
    <2>2. AfterRead(q) \in Pc
      BY DEF AfterRead, ScanFirst, Pc
    <2>3. request' = [request EXCEPT ![s] = Moved(new, AfterRead(q))] /\ Running(s)
      BY <1>3 DEF Read, Running, InFlight, Pc
    <2> HIDE DEF new
    <2> QED
      BY <1>1, <1>3, <2>1, <2>2, <2>3
  <1>4. CASE FindTarget(s)
    <2> DEFINE v == q.job.arg
               new == [q EXCEPT !.target = inactive[v]]
               pc == IF inactive[v] = NoDoc THEN "refused"
                     ELSE IF q.job.op = "remove" THEN "drop_target" ELSE "drop"
    <2>1. q.pc = "target" /\ request' = [request EXCEPT ![s] = Moved(new, pc)]
      BY <1>4 DEF FindTarget
    <2>2. Running(s) /\ q.job.op \in {"default", "remove"} /\ q.job \in Job
      BY <2>1, InPlace DEF TypeInv, Running, InFlight, Pc, Placed, OpsAt
    <2>3. inactive[v] \in Doc \cup {NoDoc}
      BY <2>2, CatalogConstants DEF TypeInv, DocsOK, Arg
    <2>4. new \in RequestRec /\ new.job = q.job /\ new.seen = q.seen /\ new.card = q.card
      BY <1>0, <2>3 DEF RequestRec
    <2>5. pc \in Pc /\ pc # "write"
      BY DEF Pc
    <2> HIDE DEF new, pc, v
    <2> QED
      BY <1>1, <1>4, <2>1, <2>2, <2>4, <2>5
  <1>5. CASE ReadOverrides(s)
    <2>1. request' = [request EXCEPT ![s] = [q EXCEPT !.pc = "reconcile", !.card = active]]
          /\ q.pc = "overrides"
      BY <1>0, <1>5 DEF ReadOverrides
    <2> QED
      BY <1>0, <1>5, <2>1 DEF RequestRec, Running, InFlight, Pc
  <1>6. CASE Group(s)
    <2>1. request' = [request EXCEPT ![s] = [q EXCEPT !.pc = "check", !.card = Grouped(q.card)]]
          /\ q.pc = "group"
      BY <1>0, <1>6 DEF Group
    <2> QED
      BY <1>0, <1>6, <2>1 DEF RequestRec, Running, InFlight, Pc
  <1>7. CASE ReadFails(s)
    <2>1. PICK pc \in {"create", "refused"} : To(s, pc)
      BY <1>7 DEF ReadFails
    <2> QED
      BY <1>2, <1>7, <2>1 DEF ReadFails, InFlight, Pc
  <1>8. CASE Crash(s)
    <2>1. To(s, "dead") /\ q.pc \in InFlight
      BY <1>8 DEF Crash, Running
    <2> QED
      BY <1>2, <2>1 DEF Pc
  \* A request that has been answered, with another card.
  <1>a. ASSUME NEW card, NEW pc \in Pc, pc \in InFlight => card \in Doc,
               request' = [request EXCEPT ![s] = Moved([q EXCEPT !.card = card], pc)]
        PROVE  /\ \A o \in Slot \ {s} : request'[o] = request[o]
               /\ r.pc = pc
               /\ Running(s)' => r.job = q.job /\ r.seen = q.seen /\ r.card = card
                                 /\ r.target = q.target
    <2> DEFINE new == [q EXCEPT !.card = card]
    <2>1. pc \in InFlight => /\ new \in RequestRec /\ new.job = q.job /\ new.seen = q.seen
                             /\ new.card = card /\ new.target = q.target
      BY <1>0, <1>a, Carded
    <2>2. request' = [request EXCEPT ![s] = Moved(new, pc)]
      BY <1>a
    <2> HIDE DEF new
    <2>3. /\ \A o \in Slot \ {s} : request'[o] = request[o]
          /\ r.pc = pc
          /\ Running(s)' => r.job = q.job /\ r.seen = q.seen /\ r.card = new.card
                            /\ r.target = new.target
      BY <1>1, <2>1, <2>2
    <2> QED
      BY <2>1, <2>3 DEF Running
  <1>9. CASE CheckVersion(s) \/ CreateVersion(s)
    <2>1. PICK pc \in {"create", "refused", "list"} : To(s, pc)
      BY <1>9 DEF CheckVersion, CreateVersion, Refuse
    <2>2. q.pc \in InFlight /\ pc \in Pc
      BY <1>9 DEF CheckVersion, CreateVersion, InFlight, Pc
    <2> QED
      BY <1>2, <2>1, <2>2
  <1>14. CASE CreateServer(s)
    <2>1. /\ q.pc = "create" /\ q.job.op = "register" /\ Running(s) /\ Typed(q)
          /\ q.job \in Job
      BY <1>14, InPlace DEF TypeInv, CreateServer, Running, InFlight, Pc
    <2>2. AfterAnswer(q) \in Pc /\ AfterAnswer(q) # "write" /\ NewServer(q) \in Doc
      BY <2>1, AnswerPlaces, NewFields
    <2>3. CASE To(s, "refused")
      BY <1>2, <2>1, <2>3 DEF Pc, Running
    <2>4. CASE request' = [request EXCEPT ![s] =
                  Moved([q EXCEPT !.card = NewServer(q)], AfterAnswer(q))]
      BY <1>14, <1>a, <2>1, <2>2, <2>4
    <2> QED
      BY <1>14, <2>3, <2>4 DEF CreateServer, Refuse
  <1>15. CASE List(s)
    <2>1. /\ q.pc = "list" /\ q.job.op \in {"register", "remove"} /\ Running(s) /\ Typed(q)
          /\ q.job \in Job
      BY <1>15, InPlace DEF TypeInv, List, Running, Placed, OpsAt, InFlight, Pc
    <2>2. /\ AfterAnswer(q) \in Pc /\ AfterAnswer(q) # "write"
          /\ AfterAnswer(q) \in InFlight => q.job.op = "register"
      BY <2>1, AnswerPlaces DEF InFlight
    <2>3. AfterAnswer(q) \in InFlight => VersionCard(q) \in Doc
      BY <2>1, <2>2, NewFields
    <2>4. request' = [request EXCEPT ![s] =
             Moved([q EXCEPT !.card = VersionCard(q)], AfterAnswer(q))]
      BY <1>15 DEF List
    <2>5. /\ \A o \in Slot \ {s} : request'[o] = request[o]
          /\ r.pc = AfterAnswer(q)
          /\ Running(s)' => r.job = q.job /\ r.seen = q.seen /\ r.card = VersionCard(q)
                            /\ r.target = q.target
      BY <1>a, <2>2, <2>3, <2>4
    <2> QED
      BY <1>15, <2>1, <2>2, <2>5 DEF Running
  <1>10. CASE RemoveTarget(s) \/ DropActive(s) \/ DropTarget(s)
    <2>1. PICK pc \in {"list", "ok", "refused", "drop_target", "promote"} : To(s, pc)
      BY <1>10 DEF RemoveTarget, DropActive, DropTarget, Refuse
    <2>2. q.pc \in InFlight /\ pc \in Pc
      BY <1>10 DEF RemoveTarget, DropActive, DropTarget, InFlight, Pc
    <2> QED
      BY <1>2, <2>1, <2>2
  <1>11. CASE Promote(s) \/ Demote(s) \/ Delete(s)
    <2>1. PICK pc \in {"demote", "ok", "refused"} : To(s, pc)
      BY <1>11 DEF Promote, Demote, Delete, Refuse
    <2>2. q.pc \in InFlight /\ pc \in Pc
      BY <1>11 DEF Promote, Demote, Delete, InFlight, Pc
    <2> QED
      BY <1>2, <2>1, <2>2
  <1>12. CASE Write(s)
    <2>1. /\ q.pc = "write" /\ q.job.op # "scan" /\ Running(s) /\ q.card \in Doc
          /\ q.job \in Job /\ q.id \in Nat
      BY <1>12, InPlace, CatalogConstants DEF TypeInv, Write, Running, InFlight, Pc, Placed
    <2>2. AfterWrite(q) \in Pc /\ AfterWrite(q) # "write" /\ Merged(q) \in Doc
      BY <2>1, AnswerPlaces, TextFields DEF AfterWrite, Merged, Pc
    <2>3. CASE To(s, "refused")
      BY <1>2, <2>1, <2>3 DEF Pc, Running
    <2>4. CASE request' = [request EXCEPT ![s] =
                  Moved([q EXCEPT !.card = Merged(q)], AfterWrite(q))]
      BY <1>12, <1>a, <2>1, <2>2, <2>4
    <2> QED
      BY <1>12, <2>3, <2>4 DEF Write, Refuse
  <1>13. CASE Unset(s) \/ Mark(s) \/ Reconcile(s) \/ Disable(s)
    <2>1. PICK pc \in {"overrides", "disable", "ok", "refused"} : To(s, pc)
      BY <1>13 DEF Unset, Mark, ScanFirst, Reconcile, AfterReconcile, Disable, Refuse
    <2>2. q.pc \in InFlight /\ pc \in Pc
      BY <1>13 DEF Unset, Mark, Reconcile, Disable, InFlight, Pc
    <2> QED
      BY <1>2, <2>1, <2>2
  <1> QED
    BY <1>3, <1>4, <1>5, <1>6, <1>7, <1>8, <1>9, <1>10, <1>11, <1>12, <1>13, <1>14, <1>15 DEF Step

\* A request that arrives is at its first step, with what its client has seen.
LEMMA Arrival ==
  ASSUME TypeInv, NEW s \in Slot, Arrive(s)
  PROVE  LET r == request'[s]
         IN  /\ ~Running(s)
             /\ \A o \in Slot \ {s} : request'[o] = request[o]
             /\ r.pc = "read"
             /\ IfMatch(r) => active # NoDoc /\ r.seen = active
             /\ \A o \in Slot \ {s} : Running(o) => Clash(r.job, request[o].job) \subseteq disturbed'
             /\ disturbed \subseteq disturbed'
  <1>1. PICK job \in Job :
           LET q == [Idle EXCEPT !.pc = "read", !.id = started + 1, !.job = job]
           IN  /\ IfMatch(q) => active # NoDoc
               /\ request' = [request EXCEPT ![s] =
                      [q EXCEPT !.seen = IF IfMatch(q) THEN active ELSE NoDoc]]
               /\ disturbed' = disturbed \cup
                      UNION {Clash(job, request[o].job) : o \in {x \in Slot \ {s} : Running(x)}}
    BY DEF Arrive
  <1> DEFINE q == [Idle EXCEPT !.pc = "read", !.id = started + 1, !.job = job]
             new == [q EXCEPT !.seen = IF IfMatch(q) THEN active ELSE NoDoc]
  <1>2. q.job = job /\ new.job = job /\ new.pc = "read"
        /\ new.seen = IF IfMatch(q) THEN active ELSE NoDoc
    BY DEF Idle
  <1>3. IfMatch(new) <=> IfMatch(q)
    BY <1>2 DEF IfMatch
  <1>4. request' = [request EXCEPT ![s] = new] /\ (IfMatch(q) => active # NoDoc)
    BY <1>1
  <1> HIDE DEF q, new
  <1>5. request'[s] = new /\ \A o \in Slot \ {s} : request'[o] = request[o]
    BY <1>4 DEF TypeInv, RequestsOK
  <1>6. /\ \A o \in Slot \ {s} : Running(o) => Clash(job, request[o].job) \subseteq disturbed'
        /\ disturbed \subseteq disturbed'
    BY <1>1
  <1> QED
    BY <1>2, <1>3, <1>4, <1>5, <1>6 DEF Arrive

LEMMA SeenStep ==
  ASSUME TypeInv, SeenInv, NEW s \in Slot, Step(s)
  PROVE  SeenInv'
  <1>0. /\ ActiveStep /\ clock \in Nat
        /\ active \in Doc \cup {NoDoc} /\ (active # NoDoc => active.rev \in 1..clock)
    BY TypeStep DEF TypeInv, DocsOK, Revised
  <1>1. clock <= clock' /\ clock' \in Nat
    BY <1>0 DEF ActiveStep, Tick, Rev
  \* A revision seen before is nobody's but the document's it was seen on.
  <1>2. ASSUME NEW seen \in Doc, seen.rev <= clock,
               active # NoDoc /\ active.rev = seen.rev => Same(active, seen),
               active' # NoDoc, active'.rev = seen.rev
        PROVE  Same(active', seen)
    <2>0. seen.rev \in Nat
      BY DEF Doc
    <2>1. CASE active' = active
      BY <1>2, <2>1
    <2>2. CASE active' \in Doc /\ active'.rev = Rev
      BY <1>0, <1>2, <2>0, <2>2 DEF Rev
    <2>3. CASE active # NoDoc /\ active' = CredentialUnset(active)
      <3>1. active'.rev = active.rev /\ Same(active', active)
        BY <1>0, <2>3, UnsetFields
      <3> QED
        BY <1>2, <2>3, <3>1 DEF Same
    <2> QED
      BY <1>0, <1>2, <2>1, <2>2, <2>3 DEF ActiveStep
  <1> SUFFICES ASSUME NEW o \in Slot, Running(o)', IfMatch(request'[o])
               PROVE  LET r == request'[o]
                      IN  /\ r.seen.rev <= clock'
                          /\ active' # NoDoc /\ active'.rev = r.seen.rev => Same(active', r.seen)
                          /\ r.pc = "write" =>
                                /\ ETag(r.card) = ETag(r.seen) /\ r.card.rev <= clock'
                                /\ active' # NoDoc /\ active'.rev = r.card.rev =>
                                      Same(active', r.card)
    BY DEF SeenInv, IfMatch, ETag
  <1> DEFINE q == request[o]
             r == request'[o]
  <1>3. ASSUME Running(o), r.seen = q.seen, r.job = q.job
        PROVE  /\ r.seen \in Doc /\ r.seen.rev <= clock'
               /\ active' # NoDoc /\ active'.rev = r.seen.rev => Same(active', r.seen)
               /\ q.seen.rev <= clock
               /\ active # NoDoc /\ active.rev = q.seen.rev => Same(active, q.seen)
    <2>1. IfMatch(q)
      BY <1>3 DEF IfMatch
    <2>2. /\ q.seen.rev <= clock
          /\ active # NoDoc /\ active.rev = q.seen.rev => Same(active, q.seen)
      BY <1>3, <2>1 DEF SeenInv
    <2>3. q.seen \in Doc
      BY <1>3, <2>1, InPlace DEF TypeInv, Placed, Running
    <2>4. q.seen.rev \in Nat
      BY <2>3 DEF Doc
    <2> QED
      BY <1>0, <1>1, <1>2, <1>3, <2>2, <2>3, <2>4
  <1>4. CASE request'[o] = request[o]
    <2>1. Running(o) /\ IfMatch(q)
      BY <1>4 DEF Running, IfMatch
    <2>2. ASSUME q.pc = "write"
          PROVE  /\ ETag(q.card) = ETag(q.seen) /\ q.card.rev <= clock'
                 /\ active' # NoDoc /\ active'.rev = q.card.rev => Same(active', q.card)
      <3>1. q.card \in Doc
        BY <2>1, <2>2, InPlace DEF TypeInv, Placed
      <3>2. /\ ETag(q.card) = ETag(q.seen) /\ q.card.rev <= clock
            /\ active # NoDoc /\ active.rev = q.card.rev => Same(active, q.card)
        BY <2>1, <2>2 DEF SeenInv
      <3>3. q.card.rev \in Nat
        BY <3>1 DEF Doc
      <3> QED
        BY <1>0, <1>1, <1>2, <3>1, <3>2, <3>3
    <2> QED
      BY <1>3, <1>4, <2>1, <2>2
  <1>5. CASE o = s /\ Arrive(s)
    <2>1. r.pc = "read" /\ active # NoDoc /\ r.seen = active
      BY <1>5, Arrival
    <2>2. active' = active /\ clock' = clock
      BY <1>5 DEF Arrive, docs
    <2> QED
      BY <1>0, <2>1, <2>2 DEF Same
  <1>6. CASE o = s /\ ~Arrive(s)
    <2>1. Running(o) /\ r.seen = q.seen /\ r.job = q.job /\ (r.pc = "write" => Read(s))
      BY <1>6, Own
    <2>2. ASSUME r.pc = "write"
          PROVE  /\ ETag(r.card) = ETag(r.seen) /\ r.card.rev <= clock'
                 /\ active' # NoDoc /\ active'.rev = r.card.rev => Same(active', r.card)
      <3>1. Read(s) /\ q.pc = "read"
        BY <1>6, <2>1, <2>2 DEF Read
      <3> DEFINE new == [q EXCEPT !.card = active]
      <3>2. /\ new \in RequestRec /\ new.card = active /\ AfterRead(q) \in Pc
            /\ r = Moved(new, AfterRead(q))
        BY <1>0, <1>6, <3>1, InPlace DEF RequestRec, Read, AfterRead, ScanFirst, Pc, TypeInv,
           RequestsOK
      <3> HIDE DEF new
      <3>3. AfterRead(q) = "write" /\ r.card = active
        BY <2>2, <3>2, MovedFields DEF InFlight, Pc
      <3>4. IfMatch(q) /\ q.job.op # "register"
        BY <2>1 DEF IfMatch
      <3>5. active # NoDoc /\ ETag(active) = ETag(q.seen)
        BY <3>3, <3>4 DEF AfterRead
      <3>6. active' = active /\ clock' = clock
        BY <3>1 DEF Read, docs
      <3> QED
        BY <1>0, <2>1, <3>3, <3>5, <3>6 DEF Same
    <2> QED
      BY <1>3, <2>1, <2>2
  <1> QED
    BY <1>4, <1>5, <1>6, Own, Arrival

LEMMA SeenInvariance == Spec => [](TypeInv /\ SeenInv)
  <1>1. Init => SeenInv
    BY DEF Init, SeenInv, Running, InFlight, Idle
  <1>2. TypeInv /\ SeenInv /\ [Next]_vars => SeenInv'
    <2>1. TypeInv /\ SeenInv /\ UNCHANGED vars => SeenInv'
      BY DEF vars, docs, SeenInv, Running, IfMatch
    <2> QED
      BY <2>1, Steps, SeenStep
  <1> QED
    BY <1>1, <1>2, TypeInvariance, PTL DEF Spec

\* A conditional edit goes through only if the document is the one its handler has
\* read and, unless it has been written again in the millisecond of the one its client
\* has seen, has every decision, the text and the versions of that: for any requests
\* beside it, any failures, and deletions and registrations in between.
THEOREM EditsAsSeen == Spec => NoLostEdit
  <1>1. TypeInv /\ SeenInv /\ [Next]_vars => [EditsWhatWasSeen]_vars
    <2> SUFFICES ASSUME TypeInv, SeenInv, NEW s \in Slot, Step(s), NEW o \in Slot,
                        request[o].pc = "write", IfMatch(request[o]),
                        request'[o].pc \in {"ok", "mark", "overrides", "disable"}
                 PROVE  LET q == request[o]
                        IN  /\ Same(active, q.card)
                            /\ Same(active, q.seen) \/ /\ active.rev # q.seen.rev
                                                       /\ ETag(active) = ETag(q.seen)
      BY Steps DEF EditsWhatWasSeen, Same, Content, Decisions
    <2> DEFINE q == request[o]
    <2>1. o = s /\ ~Arrive(s)
      BY Own, Arrival DEF Running, InFlight, Pc
    <2>2. q.job.op \in {"put", "patch"}
      BY DEF IfMatch
    <2>3. Write(s)
      <3>1. ~Crash(s)
        <4>1. SUFFICES ASSUME To(s, "dead") PROVE FALSE
          BY DEF Crash
        <4>2. request'[s] = Moved(q, "dead") /\ q \in RequestRec
          BY <2>1, <4>1, InPlace DEF To, TypeInv, RequestsOK
        <4> QED
          BY <2>1, <4>2, MovedFields DEF Pc
      <3> QED
        BY <2>1, <2>2, <3>1 DEF Step, Read, ReadFails, Group, CheckVersion, CreateServer, CreateVersion,
             List, FindTarget, RemoveTarget, DropActive, DropTarget, Promote, Demote, Delete, Unset,
             Mark, ReadOverrides, Reconcile, Disable
    <2>4. active # NoDoc /\ Expected(q)
      <3>1. ~Refuse(s)
        <4>1. SUFFICES ASSUME To(s, "refused") PROVE FALSE
          BY DEF Refuse
        <4>2. request'[s] = Moved(q, "refused") /\ q \in RequestRec
          BY <2>1, <4>1, InPlace DEF To, TypeInv, RequestsOK
        <4> QED
          BY <2>1, <4>2, MovedFields DEF Pc
      <3> QED
        BY <2>1, <2>3, <3>1 DEF Write
    <2>5. Running(o)
      BY DEF Running, InFlight, Pc
    <2>6. active.rev = q.card.rev /\ ETag(active) = ETag(q.card)
      BY <2>4, <2>5 DEF Expected, ETag
    <2>7. /\ ETag(q.card) = ETag(q.seen)
          /\ active # NoDoc /\ active.rev = q.card.rev => Same(active, q.card)
          /\ active # NoDoc /\ active.rev = q.seen.rev => Same(active, q.seen)
      BY <2>5 DEF SeenInv
    <2> QED
      BY <2>4, <2>6, <2>7
  <1> QED
    BY <1>1, SeenInvariance, PTL DEF Spec, NoLostEdit

-----------------------------------------------------------------------------
(* Requests that overlap *)

LEMMA ClashSymmetric == \A a, b : Clash(a, b) = Clash(b, a)
  BY DEF Clash

\* The scan of a version is about to put its card in the place of the active one.
Replaced(s) == /\ List(s) /\ Tags(request[s].job)
               /\ disturbed' = disturbed \cup Clash(request[s].job, request[s].job)

\* What has disturbed the server stays recorded; a failure is recorded as well.
LEMMA Grows ==
  ASSUME TypeInv, NEW s \in Slot, Step(s)
  PROVE  /\ disturbed \subseteq disturbed'
         /\ ~Arrive(s) => disturbed' = disturbed \/ Fault(s) \/ Replaced(s)
  <1>1. CASE Arrive(s)
    BY <1>1, Arrival
  <1>2. CASE ~Arrive(s)
    <2>1. disturbed' = disturbed \/ Fault(s) \/ Replaced(s)
      <3>1. CASE Read(s) \/ ReadFails(s) \/ Crash(s) \/ CheckVersion(s) \/ FindTarget(s) \/ ReadOverrides(s)
        BY <3>1 DEF Read, ReadFails, Crash, CheckVersion, FindTarget, ReadOverrides, history
      <3>2. CASE Group(s) \/ CreateServer(s) \/ CreateVersion(s) \/ List(s)
        BY <3>2 DEF Group, CreateServer, CreateVersion, List, Replaced, history
      <3>3. CASE RemoveTarget(s) \/ DropActive(s) \/ DropTarget(s) \/ Promote(s) \/ Demote(s) \/ Delete(s)
        BY <3>3 DEF RemoveTarget, DropActive, DropTarget, Promote, Demote, Delete
      <3>4. CASE Write(s) \/ Unset(s) \/ Mark(s) \/ Reconcile(s) \/ Disable(s)
        BY <3>4 DEF Write, Unset, Mark, Reconcile, Disable
      <3> QED
        BY <1>2, <3>1, <3>2, <3>3, <3>4 DEF Step
    <2> QED
      BY <1>2, <2>1 DEF Fault, Replaced
  <1> QED
    BY <1>1, <1>2

LEMMA AloneStep ==
  ASSUME TypeInv, AloneInv, NEW s \in Slot, Step(s)
  PROVE  AloneInv'
  <1>1. disturbed \subseteq disturbed'
    BY Grows
  <1>2. \A o \in Slot \ {s} : request'[o] = request[o]
    BY Own, Arrival
  <1>3. ASSUME NEW o \in Slot \ {s}, Running(s)', Running(o)'
        PROVE  Clash(request'[s].job, request'[o].job) \subseteq disturbed'
    <2>1. Running(o) /\ request'[o] = request[o]
      BY <1>2, <1>3 DEF Running
    <2>2. CASE Arrive(s)
      BY <2>1, <2>2, Arrival
    <2>3. CASE ~Arrive(s)
      <3>1. Running(s) /\ request'[s].job = request[s].job
        BY <1>3, <2>3, Own
      <3>2. Clash(request[s].job, request[o].job) \subseteq disturbed
        BY <2>1, <3>1 DEF AloneInv
      <3> QED
        BY <1>1, <2>1, <3>1, <3>2
    <2> QED
      BY <2>2, <2>3
  <1>4. ASSUME NEW o \in Slot \ {s}, NEW p \in Slot \ {s}, o # p, Running(o)', Running(p)'
        PROVE  Clash(request'[o].job, request'[p].job) \subseteq disturbed'
    <2>1. /\ Running(o) /\ request'[o] = request[o]
          /\ Running(p) /\ request'[p] = request[p]
      BY <1>2, <1>4 DEF Running
    <2>2. Clash(request[o].job, request[p].job) \subseteq disturbed
      BY <1>4, <2>1 DEF AloneInv
    <2> QED
      BY <1>1, <2>1, <2>2
  <1> SUFFICES ASSUME NEW o \in Slot, NEW p \in Slot, Running(o)', Running(p)', o # p
               PROVE  Clash(request'[o].job, request'[p].job) \subseteq disturbed'
    BY DEF AloneInv
  <1>5. CASE o = s
    BY <1>3, <1>5
  <1>6. CASE p = s
    BY <1>3, <1>6, ClashSymmetric
  <1>7. CASE o # s /\ p # s
    BY <1>4, <1>7
  <1> QED
    BY <1>5, <1>6, <1>7

LEMMA Rewriting ==
  ASSUME NEW s \in Slot, NEW o, WholeCard(request[s].job)
  PROVE  /\ "decisions" \in Clash(request[s].job, request[o].job)
         /\ WholeCard(request[o].job) => "versions" \in Clash(request[s].job, request[o].job)
  BY DEF Clash

\* A request that rewrites whole documents and fails is recorded, and a version
\* that takes the place of the active one.
LEMMA WholeFails ==
  ASSUME NEW s \in Slot, (WholeCard(request[s].job) /\ Fault(s)) \/ Replaced(s)
  PROVE  "versions" \in disturbed' /\ "decisions" \in disturbed'
  BY DEF Fault, Replaced, Clash, WholeCard

-----------------------------------------------------------------------------
(* No version is lost *)

\* A step that edits the active document and leaves alone what versions there are.
EditOnly ==
    /\ UNCHANGED <<inactive, promised>>
    /\ active' = NoDoc <=> active = NoDoc
    /\ active # NoDoc => /\ active'.ver = active.ver /\ active'.others = active.others
                         /\ "version_group" \in active.has => "version_group" \in active'.has

LEMMA KeptIs ==
  Kept <=> /\ (IF active = NoDoc THEN {} ELSE {active.ver}) \cup Stored(inactive) = promised
           /\ promised # {} => active # NoDoc
           /\ active # NoDoc => active.others = Stored(inactive) /\ active.ver \notin Stored(inactive)
  BY DEF Kept, Versions, Stored

LEMMA KeptThen ==
  Kept' <=> /\ (IF active' = NoDoc THEN {} ELSE {active'.ver}) \cup Stored(inactive') = promised'
            /\ promised' # {} => active' # NoDoc
            /\ active' # NoDoc => /\ active'.others = Stored(inactive')
                                  /\ active'.ver \notin Stored(inactive')
  BY DEF Kept, Versions, Stored

LEMMA StoredSet ==
  ASSUME DocsOK, NEW v \in Version, NEW d \in Doc, inactive' = [inactive EXCEPT ![v] = d]
  PROVE  Stored(inactive') = Stored(inactive) \cup {v}
  BY CatalogConstants DEF Stored, DocsOK

LEMMA StoredCleared ==
  ASSUME DocsOK, NEW v \in Version, inactive' = [inactive EXCEPT ![v] = NoDoc]
  PROVE  Stored(inactive') = Stored(inactive) \ {v}
  BY CatalogConstants DEF Stored, DocsOK

LEMMA EditKeeps == EditOnly /\ Kept => Kept'
  BY KeptIs, KeptThen DEF EditOnly

\* An edit changes nothing for the request that rewrites documents meanwhile.
LEMMA EditAside ==
  ASSUME EditOnly, NEW o \in Slot, request'[o] = request[o], Midway(request[o])
  PROVE  Midway(request[o])'
  <1> DEFINE q == request[o]
  <1>1. Current(q) => Current(q)'
    BY DEF EditOnly, Current
  <1>2. Grouping(q) => Grouping(q)'
    BY <1>1 DEF Grouping, Current, EditOnly
  <1>3. Kept => Kept'
    BY EditKeeps
  <1>4. /\ inactive' = inactive /\ promised' = promised
        /\ active' = NoDoc <=> active = NoDoc
        /\ active # NoDoc => active'.ver = active.ver /\ active'.others = active.others
    BY DEF EditOnly
  <1> QED
    BY <1>1, <1>2, <1>3, <1>4 DEF Midway, Grouping, Current

\* What a scan does once its tag is written, whoever has started it.
LEMMA ScanEdits ==
  ASSUME TypeInv, NEW s \in Slot, ReadOverrides(s) \/ Reconcile(s) \/ Disable(s)
  PROVE  EditOnly
  <1> DEFINE q == request[s]
  <1>0. /\ clock \in Nat /\ Typed(q) /\ NoDoc \notin Doc
        /\ active # NoDoc => active \in Doc
    BY InPlace, CatalogConstants DEF TypeInv, DocsOK
  <1>1. CASE ReadOverrides(s)
    BY <1>1 DEF ReadOverrides, docs, history, EditOnly
  <1>2. CASE Reconcile(s)
    <2>1. Reconciled(q) \in [Tool -> Decision]
      BY <1>0, ReconciledType
    <2>2. UNCHANGED <<inactive, promised>>
      BY <1>2 DEF Reconcile
    <2>3. \/ active' = active
          \/ active # NoDoc /\ active' = OverridesReplaced(active, Reconciled(q))
      BY <1>2 DEF Reconcile, Landed, NoWrite
    <2>4. active # NoDoc =>
             LET new == OverridesReplaced(active, Reconciled(q))
             IN  /\ new \in Doc /\ new.ver = active.ver /\ new.others = active.others
                 /\ active.has \subseteq new.has
      BY <1>0, <2>1, OverrideFields
    <2> QED
      BY <1>0, <2>2, <2>3, <2>4 DEF EditOnly
  <1>3. CASE Disable(s)
    <2>1. UNCHANGED <<inactive, promised>>
      BY <1>3 DEF Disable
    <2>2. active' = active \/ (active # NoDoc /\ active' = StateSet(active, FALSE))
      BY <1>3 DEF Disable, Landed, NoWrite
    <2>3. active # NoDoc =>
             LET new == StateSet(active, FALSE)
             IN  /\ new \in Doc /\ new.ver = active.ver /\ new.others = active.others
                 /\ active.has \subseteq new.has
      BY <1>0, StateFields
    <2> QED
      BY <1>0, <2>1, <2>2, <2>3 DEF EditOnly
  <1> QED
    BY <1>1, <1>2, <1>3

\* Edits of one field, and conditional edits, are edits only.
LEMMA EditStep ==
  ASSUME TypeInv, SeenInv, NEW s \in Slot, Step(s), ~Arrive(s), ~WholeCard(request[s].job)
  PROVE  EditOnly
  <1> DEFINE q == request[s]
  <1>0. /\ q.job.op \notin {"register", "clear", "fetch", "default", "remove", "delete"}
        /\ q.job.op = "put" => IfMatch(q)
        /\ ~Tags(q.job)
        /\ Placed(q, q.pc) /\ clock \in Nat /\ Typed(q)
        /\ active # NoDoc => active \in Doc
        /\ NoDoc \notin Doc
    BY InPlace, CatalogConstants DEF WholeCard, IfMatch, TypeInv, DocsOK
  <1>1. CASE Read(s) \/ ReadFails(s) \/ Crash(s) \/ CheckVersion(s) \/ FindTarget(s) \/ ReadOverrides(s)
    BY <1>1 DEF Read, ReadFails, Crash, CheckVersion, FindTarget, ReadOverrides, docs, history, EditOnly
  <1>2. ~(Group(s) \/ CreateServer(s) \/ CreateVersion(s) \/ List(s))
    BY <1>0 DEF Group, CreateServer, CreateVersion, List, Placed, OpsAt
  <1>3. ~(RemoveTarget(s) \/ DropActive(s) \/ DropTarget(s) \/ Promote(s) \/ Demote(s) \/ Delete(s))
    BY <1>0 DEF RemoveTarget, DropActive, DropTarget, Promote, Demote, Delete, Placed, OpsAt
  <1>4. CASE Write(s)
    <2>1. UNCHANGED <<inactive, promised>> /\ q.pc = "write" /\ q.job.op # "delete"
      BY <1>4 DEF Write
    <2>2. \/ active' = active
          \/ active # NoDoc /\ active' = Edited(q) /\ Expected(q)
      BY <1>4 DEF Write, Landed, NoWrite
    <2>3. ASSUME active # NoDoc, Expected(q)
          PROVE  LET new == Edited(q)
                 IN  /\ new \in Doc /\ new.ver = active.ver /\ new.others = active.others
                     /\ active.has \subseteq new.has
      <3>1. EditOf(q, Edited(q))
        BY <2>1, <2>3, EditedFields
      <3>2. CASE q.job.op \in {"patch", "toggle", "tool"}
        BY <3>1, <3>2 DEF EditOf
      <3>3. CASE q.job.op = "put"
        <4>1. IfMatch(q) /\ Running(s)
          BY <1>0, <2>1, <3>3 DEF Running, InFlight, Pc
        <4>2. active.rev = q.card.rev
          BY <2>3, <4>1 DEF Expected
        <4>3. Same(active, q.card)
          BY <2>1, <2>3, <4>1, <4>2 DEF SeenInv
        <4> QED
          BY <3>1, <3>3, <4>3 DEF EditOf, Same
      <3> QED
        BY <1>0, <1>4, <3>2, <3>3 DEF Write
    <2> QED
      BY <1>0, <2>1, <2>2, <2>3 DEF EditOnly
  <1>5. ~Unset(s) /\ ~Mark(s)
    BY <1>0 DEF Unset, Mark, Placed, OpsAt
  <1>6. CASE ReadOverrides(s) \/ Reconcile(s) \/ Disable(s)
    BY <1>6, ScanEdits
  <1> QED
    BY <1>1, <1>2, <1>3, <1>4, <1>5, <1>6 DEF Step

\* Listing others is what makes a document a version, whatever a step does.
LEMMA ShapeStep ==
  ASSUME TypeInv, Shape, NEW s \in Slot, Step(s)
  PROVE  Shape'
  <1> DEFINE q == request[s]
             Fit(doc) == "version_group" \in doc.has \/ doc.others = {}
             InactiveFit == \A v \in Stored(inactive') : inactive'[v].ver = v
  <1>0. /\ Placed(q, q.pc) /\ clock \in Nat /\ Typed(q) /\ DocsOK
        /\ active # NoDoc => active \in Doc /\ Fit(active)
        /\ NoDoc \notin Doc
        /\ \A v \in Stored(inactive) : inactive[v].ver = v
    BY InPlace, CatalogConstants DEF TypeInv, DocsOK, Shape
  <1>1. inactive' = inactive => InactiveFit
    BY <1>0
  <1>2. InactiveFit /\ (active' # NoDoc => Fit(active')) => Shape'
    BY DEF Shape
  <1>3. ASSUME NEW card \in Doc, active # NoDoc
        PROVE  Fit(Overlay(active, card))
    <2> DEFINE new == Overlay(active, card)
    <2>1. /\ new.has = card.has \cup active.has
          /\ new.others = IF "version_group" \in card.has THEN card.others ELSE active.others
      BY <1>0, <1>3, OverlayFields
    <2> HIDE DEF new
    <2>2. Fit(new)
      BY <1>0, <1>3, <2>1
    <2> QED
      BY <2>2 DEF new
  <1>4. CASE UNCHANGED docs
    BY <1>0, <1>1, <1>2, <1>4 DEF docs
  <1>5. CASE Arrive(s) \/ Read(s) \/ ReadFails(s) \/ Crash(s) \/ CheckVersion(s) \/ FindTarget(s) \/ ReadOverrides(s)
    BY <1>4, <1>5 DEF Arrive, Read, ReadFails, Crash, CheckVersion, FindTarget, ReadOverrides
  <1>6. CASE Group(s)
    <2>1. q.card \in Doc
      BY <1>0, <1>6, RequestFields DEF Group, Placed
    <2>2. Grouped(q.card) \in Doc
      BY <2>1, GroupedFields
    <2>3. active' = active \/ (active # NoDoc /\ active' = Overlay(active, Grouped(q.card)))
      BY <1>6 DEF Group, Landed, NoWrite
    <2> QED
      BY <1>0, <1>1, <1>2, <1>3, <1>6, <2>2, <2>3 DEF Group
  <1>7. CASE CreateServer(s)
    <2>1. q.job \in Job /\ q.job.op = "register"
      BY <1>0, <1>7 DEF CreateServer, Placed, InFlight, Pc
    <2>2. NewServer(q) \in Doc /\ NewServer(q).others = {}
      BY <1>0, <2>1, NewFields
    <2>3. Inserted(NewServer(q)).others = {}
      BY <1>0, <2>2, InsertedFields DEF Same
    <2>4. active' = active \/ active' = Inserted(NewServer(q))
      BY <1>7 DEF CreateServer, NoWrite
    <2> QED
      BY <1>0, <1>1, <1>2, <1>7, <2>3, <2>4 DEF CreateServer
  <1>8. CASE CreateVersion(s)
    <2>0. q.job \in Job /\ q.job.op = "register" /\ q.card # NoDoc
      BY <1>0, <1>8 DEF CreateVersion, Placed, InFlight, Pc
    <2>1. q.job \in Job /\ q.job.op = "register" /\ q.card # NoDoc /\ q.job.arg \in Version
      BY <1>0, <2>0, RequestFields DEF Arg
    <2> DEFINE new == Inserted(NewVersion(q))
    <2>2. new \in Doc /\ new.ver = q.job.arg
      <3>1. NewVersion(q) \in Doc /\ NewVersion(q).ver = q.job.arg
        BY <1>0, <2>1, NewFields
      <3> QED
        BY <1>0, <3>1, InsertedFields DEF Same
    <2>3. inactive' = inactive \/ inactive' = [inactive EXCEPT ![q.job.arg] = new]
      BY <1>8 DEF CreateVersion
    <2> HIDE DEF new
    <2>4. CASE inactive' = [inactive EXCEPT ![q.job.arg] = new]
      <3>1. Stored(inactive') = Stored(inactive) \cup {q.job.arg}
        BY <1>0, <2>1, <2>2, <2>4, StoredSet
      <3>2. InactiveFit
        BY <1>0, <2>1, <2>2, <2>4, <3>1 DEF DocsOK
      <3> QED
        BY <1>0, <1>2, <1>8, <3>2 DEF CreateVersion
    <2> QED
      BY <1>0, <1>1, <1>2, <1>8, <2>3, <2>4 DEF CreateVersion
  <1>9. CASE List(s)
    <2>1. q.job \in Job /\ q.job.op \in {"register", "remove"} /\ q.card # NoDoc
      BY <1>0, <1>9 DEF List, Placed, OpsAt, InFlight, Pc
    <2>2. Listed(q) \in Doc
      BY <1>0, <2>1, ListedFields
    <2>3. active' = active \/ (active # NoDoc /\ active' = Overlay(active, Listed(q)))
      BY <1>9 DEF List, Landed, NoWrite
    <2> QED
      BY <1>0, <1>1, <1>2, <1>3, <1>9, <2>2, <2>3 DEF List
  <1>10. CASE RemoveTarget(s) \/ DropTarget(s)
    <2>1. q.job.arg \in Version
      <3>1. q.job \in Job /\ q.job.op \in {"default", "remove"}
        BY <1>0, <1>10 DEF RemoveTarget, DropTarget, Placed, OpsAt, InFlight, Pc
      <3> QED
        BY <1>0, <3>1, RequestFields DEF Arg
    <2>2. active' = active /\ (inactive' = inactive \/ inactive' = [inactive EXCEPT ![q.job.arg] = NoDoc])
      BY <1>10 DEF RemoveTarget, DropTarget
    <2>3. CASE inactive' = [inactive EXCEPT ![q.job.arg] = NoDoc]
      <3>1. Stored(inactive') = Stored(inactive) \ {q.job.arg}
        BY <1>0, <2>1, <2>3, StoredCleared
      <3>2. InactiveFit
        BY <1>0, <2>1, <2>3, <3>1 DEF DocsOK
      <3> QED
        BY <1>0, <1>2, <2>2, <3>2
    <2> QED
      BY <1>0, <1>1, <1>2, <2>2, <2>3
  <1>11. CASE DropActive(s)
    BY <1>0, <1>1, <1>2, <1>11 DEF DropActive
  <1>12. CASE Promote(s)
    <2>1. q.card # NoDoc /\ q.target # NoDoc /\ q.job \in Job /\ q.job.op = "default"
      BY <1>0, <1>12 DEF Promote, Placed, OpsAt, InFlight, Pc
    <2>2. Promoted(q) \in Doc /\ "version_group" \in Promoted(q).has
      BY <1>0, <2>1, SwapFields
    <2>3. "version_group" \in Inserted(Promoted(q)).has
      BY <1>0, <2>2, InsertedFields
    <2>4. active' = active \/ active' = Inserted(Promoted(q))
      BY <1>12 DEF Promote, NoWrite
    <2> QED
      BY <1>0, <1>1, <1>2, <1>12, <2>3, <2>4 DEF Promote
  <1>13. CASE Demote(s)
    <2>1. q.card \in Doc
      BY <1>0, <1>13, RequestFields DEF Demote, Placed
    <2> DEFINE v == q.card.ver
               new == Inserted(Demoted(q))
    <2>2. v \in Version /\ new \in Doc /\ new.ver = v
      <3>1. Demoted(q) \in Doc /\ Demoted(q).ver = v
        BY <1>0, <2>1, SwapFields
      <3> QED
        BY <1>0, <2>1, <3>1, InsertedFields DEF Same, Doc
    <2>3. inactive' = inactive \/ inactive' = [inactive EXCEPT ![v] = new]
      BY <1>13 DEF Demote
    <2> HIDE DEF new, v
    <2>4. CASE inactive' = [inactive EXCEPT ![v] = new]
      <3>1. Stored(inactive') = Stored(inactive) \cup {v}
        BY <1>0, <2>2, <2>4, StoredSet
      <3>2. InactiveFit
        BY <1>0, <2>2, <2>4, <3>1 DEF DocsOK
      <3> QED
        BY <1>0, <1>2, <1>13, <3>2 DEF Demote
    <2> QED
      BY <1>0, <1>1, <1>2, <1>13, <2>3, <2>4 DEF Demote
  <1>14. CASE Delete(s)
    <2>1. UNCHANGED docs \/ (active' = NoDoc /\ inactive' = Survivors)
      BY <1>14 DEF Delete
    <2> QED
      BY <1>2, <1>4, <2>1 DEF Survivors, Stored
  <1>15. CASE Write(s)
    <2>1. /\ inactive' = inactive /\ q.pc = "write"
          /\ q.job.op \in {"put", "patch", "toggle", "tool", "clear", "fetch"}
      BY <1>15 DEF Write
    <2>2. active' = active \/ (active # NoDoc /\ active' = Edited(q))
      BY <1>15 DEF Write, Landed, NoWrite
    <2>3. ASSUME active # NoDoc PROVE Fit(Edited(q))
      <3>1. EditOf(q, Edited(q))
        BY <2>1, <2>3, EditedFields
      <3> QED
        BY <1>0, <2>1, <2>3, <3>1 DEF EditOf
    <2> QED
      BY <1>0, <1>1, <1>2, <2>1, <2>2, <2>3
  <1>16. CASE Unset(s)
    <2>1. inactive' = inactive /\ (active' = active \/ (active # NoDoc /\ active' = CredentialUnset(active)))
      BY <1>16 DEF Unset
    <2>2. active # NoDoc => Fit(CredentialUnset(active))
      BY <1>0, UnsetFields DEF Same
    <2> QED
      BY <1>0, <1>1, <1>2, <2>1, <2>2
  <1>17. CASE Reconcile(s) \/ Disable(s)
    <2>2. /\ UNCHANGED inactive
          /\ \/ active' = active
             \/ active # NoDoc /\ active' = StateSet(active, FALSE)
             \/ active # NoDoc /\ active' = OverridesReplaced(active, Reconciled(q))
      BY <1>17 DEF Reconcile, Disable, Landed, NoWrite
    <2>3. active # NoDoc => Fit(StateSet(active, FALSE))
      BY <1>0, StateFields
    <2>4. Reconciled(q) \in [Tool -> Decision]
      BY <1>0, ReconciledType
    <2>5. active # NoDoc => Fit(OverridesReplaced(active, Reconciled(q)))
      BY <1>0, <2>4, OverrideFields
    <2> QED
      BY <1>0, <1>1, <1>2, <2>2, <2>3, <2>5
  <1>18. CASE Mark(s)
    <2>1. q.card \in Doc
      BY <1>0, <1>18, RequestFields DEF Mark, Placed
    <2>2. active' = active \/ (active # NoDoc /\ active' = Overlay(active, q.card))
      BY <1>18 DEF Mark, Landed, NoWrite
    <2> QED
      BY <1>0, <1>1, <1>2, <1>3, <1>18, <2>1, <2>2 DEF Mark
  <1> QED
    BY <1>5, <1>6, <1>7, <1>8, <1>9, <1>10, <1>11, <1>12, <1>13, <1>14, <1>15, <1>16, <1>17,
       <1>18 DEF Step

LEMMA ToFields ==
  ASSUME TypeInv, NEW s \in Slot, NEW pc \in Pc, To(s, pc)
  PROVE  LET q == request[s]
             r == request'[s]
         IN  /\ r.pc = pc
             /\ pc \in InFlight => r.job = q.job /\ r.card = q.card /\ r.target = q.target
  <1>1. request'[s] = Moved(request[s], pc) /\ request[s] \in RequestRec
    BY InPlace DEF To, TypeInv, RequestsOK
  <1> QED
    BY <1>1, MovedFields

\* What the request of s leaves behind: the versions in order once it has ended.
Settles(s) == /\ Running(s)' => Midway(request[s])'
              /\ ~Running(s)' => Kept'

LEMMA Ends ==
  ASSUME TypeInv, NEW s \in Slot, NEW pc \in {"ok", "refused"}, To(s, pc), Kept'
  PROVE  Settles(s)
  <1>1. pc \in Pc /\ pc \notin InFlight
    BY DEF Pc, InFlight
  <1>2. ~Running(s)'
    BY <1>1, ToFields DEF Running
  <1> QED
    BY <1>2 DEF Settles

\* It still stands where only a stored order of the versions is asked of it.
LEMMA Rests ==
  ASSUME NEW s \in Slot, Kept',
         request'[s].pc \in {"ok", "refused", "unset", "overrides", "reconcile", "disable"}
  PROVE  Settles(s)
  <1>1. Midway(request[s])'
    BY DEF Midway
  <1> QED
    BY <1>1 DEF Settles

LEMMA Untouched == UNCHANGED <<docs, promised>> /\ Kept => Kept'
  BY KeptIs, KeptThen DEF docs

\* Steps that read.
LEMMA WholeReads ==
  ASSUME TypeInv, Shape, NEW s \in Slot, WholeCard(request[s].job), Midway(request[s]),
         Read(s) \/ CheckVersion(s) \/ FindTarget(s)
  PROVE  Settles(s)
  <1> DEFINE q == request[s]
             r == request'[s]
  <1>0. /\ Placed(q, q.pc) /\ q \in RequestRec /\ UNCHANGED <<docs, promised>>
        /\ active # NoDoc => active \in Doc
        /\ request \in [Slot -> RequestRec]
    BY InPlace DEF TypeInv, RequestsOK, DocsOK, Read, CheckVersion, FindTarget, history
  <1>1. Kept => Kept'
    BY <1>0, Untouched
  <1>2. CASE Read(s)
    <2> DEFINE new == [q EXCEPT !.card = active]
               pc == AfterRead(q)
    <2>1. /\ new \in RequestRec /\ new.job = q.job /\ new.card = active
          /\ new.target = q.target
      BY <1>0 DEF RequestRec, TypeInv, DocsOK
    <2>2. pc \in Pc
      BY DEF AfterRead, ScanFirst, Pc
    <2>3. r = Moved(new, pc) /\ q.pc = "read"
      BY <1>0, <1>2 DEF Read
    <2> HIDE DEF new
    <2>4. r.pc = pc /\ (pc \in InFlight => r.job = q.job /\ r.card = active /\ r.target = q.target)
      BY <2>1, <2>2, <2>3, MovedFields
    <2>5. Kept /\ Kept'
      BY <1>1, <2>3 DEF Midway
    <2>6. CASE pc \notin InFlight
      BY <2>4, <2>5, <2>6 DEF Settles, Running
    <2>7. CASE pc = "create"
      <3>1. q.job.op = "register" /\ active = NoDoc
        BY <2>7 DEF AfterRead, ScanFirst
      <3>2. r.card = NoDoc /\ active' = NoDoc /\ r.pc = "create"
        BY <1>0, <2>4, <2>7, <3>1 DEF InFlight, Pc, docs
      <3>3. Midway(request[s])'
        BY <2>5, <3>2 DEF Midway
      <3> QED
        BY <3>2, <3>3 DEF Settles, Running, InFlight, Pc
    <2>8. CASE pc \in {"check", "target"}
      <3>1. active # NoDoc /\ q.job.arg # active.ver /\ "version_group" \in active.has
        BY <1>2, <2>8 DEF AfterRead, ScanFirst
      <3>2. r.card = active /\ active' = active /\ r.job = q.job /\ r.pc = pc
        BY <1>0, <2>4, <2>8 DEF InFlight, Pc, docs
      <3>3. Grouping(request[s])'
        BY <3>1, <3>2 DEF Grouping, Current
      <3>4. Midway(request[s])'
        BY <2>5, <2>8, <3>2, <3>3 DEF Midway
      <3> QED
        BY <2>8, <3>2, <3>4 DEF Settles, Running, InFlight, Pc
    <2>9. CASE pc = "group"
      <3>1. active # NoDoc /\ q.job.arg # active.ver /\ "version_group" \notin active.has
        BY <1>2, <2>9 DEF AfterRead, ScanFirst
      <3>2. r.card = active /\ active' = active /\ r.job = q.job /\ r.pc = pc
        BY <1>0, <2>4, <2>9 DEF InFlight, Pc, docs
      <3>3. Midway(request[s])'
        BY <2>5, <2>9, <3>1, <3>2 DEF Midway, Current, Shape
      <3> QED
        BY <2>9, <3>2, <3>3 DEF Settles, Running, InFlight, Pc
    <2>10. CASE pc = "write"
      <3>1. active # NoDoc
        BY <2>10 DEF AfterRead
      <3>2. r.card = active /\ active' = active /\ r.pc = pc
        BY <1>0, <2>4, <2>10 DEF InFlight, Pc, docs
      <3>3. Midway(request[s])'
        BY <2>5, <2>10, <3>1, <3>2 DEF Midway, Current
      <3> QED
        BY <2>10, <3>2, <3>3 DEF Settles, Running, InFlight, Pc
    <2>11. pc \in {"create", "check", "target", "group", "write", "ok", "refused"}
      <3>1. q.job.op # "scan"
        BY DEF WholeCard, Tags
      <3> QED
        BY <3>1 DEF AfterRead
    <2> QED
      BY <2>6, <2>7, <2>8, <2>9, <2>10, <2>11 DEF InFlight
  <1>3. CASE CheckVersion(s)
    <2>1. q.pc = "check" /\ (To(s, "create") \/ To(s, "refused"))
      BY <1>3 DEF CheckVersion, Refuse
    <2>2. Kept /\ Grouping(q) /\ Kept'
      BY <1>1, <2>1 DEF Midway
    <2>3. CASE To(s, "create")
      <3>1. r.pc = "create" /\ r.job = q.job /\ r.card = q.card
        BY <2>3, ToFields DEF Pc, InFlight
      <3>2. q.card # NoDoc /\ Grouping(request[s])'
        BY <1>0, <2>1, <2>2, <3>1 DEF Placed, Grouping, Current, docs
      <3>3. Midway(request[s])'
        BY <2>2, <3>1, <3>2 DEF Midway
      <3> QED
        BY <3>1, <3>3 DEF Settles, Running, InFlight, Pc
    <2> QED
      BY <2>1, <2>2, <2>3, Ends
  <1>4. CASE FindTarget(s)
    <2> DEFINE v == q.job.arg
               new == [q EXCEPT !.target = inactive[v]]
               pc == IF inactive[v] = NoDoc THEN "refused"
                     ELSE IF q.job.op = "remove" THEN "drop_target" ELSE "drop"
    <2>1. /\ q.pc = "target" /\ q.job.op \in {"default", "remove"} /\ q.job \in Job
          /\ r = Moved(new, pc)
      BY <1>0, <1>4 DEF FindTarget, Placed, OpsAt, InFlight, Pc
    <2>2. v \in Version /\ inactive[v] \in Doc \cup {NoDoc}
      BY <2>1, CatalogConstants DEF TypeInv, DocsOK, Arg
    <2>3. /\ new \in RequestRec /\ new.job = q.job /\ new.card = q.card /\ new.target = inactive[v]
      BY <1>0, <2>2 DEF RequestRec
    <2>4. Kept /\ Grouping(q) /\ Kept'
      BY <1>1, <2>1 DEF Midway
    <2>5. pc \in Pc
      BY DEF Pc
    <2> HIDE DEF new, pc
    <2>6. r.pc = pc /\ (pc \in InFlight => r.job = q.job /\ r.card = q.card /\ r.target = inactive[v])
      BY <2>1, <2>3, <2>5, MovedFields
    <2>7. CASE inactive[v] = NoDoc
      BY <2>4, <2>6, <2>7 DEF pc, Settles, Running, InFlight
    <2>8. CASE inactive[v] # NoDoc
      <3>1. v \in Stored(inactive) /\ inactive[v].ver = v
        BY <2>2, <2>8 DEF Stored, Shape
      <3>2. pc \in {"drop_target", "drop"} /\ (pc = "drop_target" => q.job.op = "remove")
        BY <2>8 DEF pc
      <3>3. r.pc = pc /\ r.job = q.job /\ r.card = q.card /\ r.target = inactive[v]
        BY <2>6, <3>2 DEF InFlight, Pc
      <3>4. Grouping(request[s])' /\ Stored(inactive)' = Stored(inactive)
        BY <1>0, <2>4, <3>3 DEF Grouping, Current, docs
      <3>5. Midway(request[s])'
        BY <2>4, <3>1, <3>2, <3>3, <3>4 DEF Midway
      <3> QED
        BY <3>2, <3>3, <3>5 DEF Settles, Running, InFlight, Pc
    <2> QED
      BY <2>7, <2>8
  <1> QED
    BY <1>2, <1>3, <1>4

\* Registrations of a version.
LEMMA WholeVersions ==
  ASSUME TypeInv, NEW s \in Slot, WholeCard(request[s].job), Midway(request[s]),
         "versions" \notin disturbed',
         Group(s) \/ CreateServer(s) \/ CreateVersion(s)
  PROVE  Settles(s)
  <1> DEFINE q == request[s]
             r == request'[s]
             v == q.job.arg
  <1>0. /\ Placed(q, q.pc) /\ Typed(q) /\ q \in RequestRec /\ ~Fault(s)
        /\ active # NoDoc => active \in Doc
        /\ request \in [Slot -> RequestRec] /\ DocsOK /\ clock \in Nat
        /\ NoDoc \notin Doc /\ q.card \in Doc \cup {NoDoc}
    BY InPlace, WholeFails, CatalogConstants DEF TypeInv, RequestsOK, DocsOK
  <1>1. q.job.op = "register" /\ q.job \in Job /\ v \in Version
    <2>1. q.job.op = "register" /\ q.job \in Job
      BY <1>0 DEF Group, CreateServer, CreateVersion, Placed, OpsAt, InFlight, Pc
    <2> QED
      BY <1>0, <2>1, RequestFields DEF Arg
  <1>2. CASE Group(s)
    <2>1. q.pc = "group" /\ q.card \in Doc
      BY <1>0, <1>2 DEF Group, Placed
    <2>2. Kept /\ Current(q) /\ v # active.ver /\ active.others = {}
      BY <2>1 DEF Midway
    <2>3. active # NoDoc /\ q.card.ver = active.ver /\ q.card.others = {} /\ active \in Doc
      BY <1>0, <2>2 DEF Current
    <2> DEFINE card == Grouped(q.card)
               new == Overlay(active, card)
    <2>4. card \in Doc /\ card.ver = active.ver /\ "version_group" \in card.has /\ card.others = {}
      BY <2>1, <2>3, GroupedFields
    <2>5. new \in Doc /\ new.ver = active.ver /\ new.others = {}
      BY <1>0, <2>3, <2>4, OverlayFields
    <2>6. /\ active' = new /\ UNCHANGED <<inactive, promised>>
          /\ request' = [request EXCEPT ![s].pc = "check", ![s].card = card]
      BY <1>0, <1>2, <2>3 DEF Group, Landed
    <2> HIDE DEF new, card
    <2>7. r.pc = "check" /\ r.card = card /\ r.job = q.job
      BY <1>0, <2>6 DEF RequestRec
    <2>8. Kept'
      BY <1>0, <2>2, <2>3, <2>5, <2>6, KeptIs, KeptThen
    <2>9. Grouping(request[s])'
      BY <1>0, <2>2, <2>4, <2>5, <2>6, <2>7 DEF Grouping, Current
    <2>10. Midway(request[s])'
      BY <2>7, <2>8, <2>9 DEF Midway
    <2> QED
      BY <2>7, <2>10 DEF Settles, Running, InFlight, Pc
  <1>3. CASE CreateServer(s)
    <2>1. Kept /\ active = NoDoc
      BY <1>3 DEF CreateServer, Midway
    <2> DEFINE new == Inserted(NewServer(q))
    <2>2. NewServer(q) \in Doc /\ NewServer(q).ver = v /\ NewServer(q).others = {}
      BY <1>0, <1>1, NewFields
    <2>3. new \in Doc /\ new.ver = v /\ new.others = {}
      BY <1>0, <2>2, InsertedFields DEF Same
    <2> DEFINE card == NewServer(q)
               moved == [q EXCEPT !.card = card]
               pc == AfterAnswer(q)
    <2>4. /\ active' = new /\ promised' = {v} /\ inactive' = inactive
          /\ request' = [request EXCEPT ![s] = Moved(moved, pc)]
      BY <1>0, <1>3, <2>1 DEF CreateServer
    <2>5. Stored(inactive) = {}
      BY <2>1, KeptIs
    <2>6. pc \in {"ok", "mark", "overrides", "disable"} /\ pc \in Pc
      BY <1>1, AnswerPlaces
    <2>7. moved \in RequestRec /\ moved.card = card
      BY <1>0, <2>2, Carded
    <2> HIDE DEF new, moved, pc
    <2>8. Kept'
      BY <1>0, <2>3, <2>4, <2>5, KeptThen
    <2>9. r.pc = pc /\ (pc = "mark" => r.card = card)
      <3>1. r = Moved(moved, pc)
        BY <1>0, <2>4
      <3> QED
        BY <2>6, <2>7, <3>1, MovedFields DEF InFlight
    <2>10. CASE pc = "mark"
      <3>1. Current(request[s])'
        BY <1>0, <2>2, <2>3, <2>4, <2>9, <2>10 DEF Current
      <3>2. Midway(request[s])'
        BY <2>8, <2>9, <2>10, <3>1 DEF Midway
      <3> QED
        BY <2>8, <2>9, <2>10, <3>2 DEF Settles, Running, InFlight, Pc
    <2> QED
      BY <2>6, <2>8, <2>9, <2>10, Rests
  <1>4. CASE CreateVersion(s)
    <2>1. Kept /\ Grouping(q) /\ q.card # NoDoc
      BY <1>4 DEF CreateVersion, Midway
    <2>2. /\ active # NoDoc /\ q.card.ver = active.ver /\ q.card.others = active.others
          /\ v # active.ver
      BY <2>1 DEF Grouping, Current
    <2>3. CASE inactive[v] = NoDoc
      <3> DEFINE new == Inserted(NewVersion(q))
      <3>1. NewVersion(q) \in Doc
        BY <1>0, <1>1, <2>1, NewFields
      <3>2. new \in Doc
        BY <1>0, <3>1, InsertedFields
      <3>3. /\ inactive' = [inactive EXCEPT ![v] = new] /\ UNCHANGED <<active, promised>>
            /\ To(s, "list")
        BY <1>0, <1>4, <2>3 DEF CreateVersion
      <3> HIDE DEF new
      <3>4. Stored(inactive') = Stored(inactive) \cup {v}
        BY <1>0, <1>1, <3>2, <3>3, StoredSet
      <3>5. r.pc = "list" /\ r.job = q.job /\ r.card = q.card
        BY <3>3, ToFields DEF Pc, InFlight
      <3>6. Grouping(request[s])'
        BY <2>1, <3>3, <3>5 DEF Grouping, Current
      <3>7. /\ {active.ver} \cup Stored(inactive) = promised
            /\ active.others = Stored(inactive) /\ active.ver \notin Stored(inactive)
        BY <2>1, <2>2, KeptIs
      <3>8. /\ active'.ver \notin Stored(inactive')
            /\ r.card.others \cup {v} = Stored(inactive')
            /\ promised' \cup {v} = Stored(inactive') \cup {active'.ver}
        BY <2>2, <3>3, <3>4, <3>5, <3>7
      <3>9. Midway(request[s])'
        BY <1>1, <3>5, <3>6, <3>8 DEF Midway
      <3> QED
        BY <3>5, <3>9 DEF Settles, Running, InFlight, Pc
    <2>4. CASE inactive[v] # NoDoc
      <3>1. UNCHANGED <<docs, promised>> /\ To(s, "refused")
        BY <1>0, <1>4, <2>4 DEF CreateVersion, Refuse, docs
      <3> QED
        BY <2>1, <3>1, Untouched, Ends
    <2> QED
      BY <2>3, <2>4
  <1> QED
    BY <1>2, <1>3, <1>4

\* Where the list of versions leads: to the tag only if the version is to replace
\* the active document.
LEMMA Listing ==
  ASSUME TypeInv, NEW s \in Slot, List(s)
  PROVE  LET pc == request'[s].pc
         IN  /\ pc \in {"ok", "mark", "overrides", "disable"}
             /\ pc = "mark" => Tags(request[s].job)
  <1> DEFINE q == request[s]
             moved == [q EXCEPT !.card = VersionCard(q)]
             pc == AfterAnswer(q)
  <1>1. /\ q.job \in Job /\ q.job.op \in {"register", "remove"} /\ Typed(q) /\ q \in RequestRec
    BY InPlace DEF TypeInv, List, Placed, OpsAt, InFlight, Pc
  <1>2. /\ pc \in {"ok", "mark", "overrides", "disable"} /\ pc \in Pc
        /\ pc # "ok" => q.job.op = "register"
        /\ pc = "mark" => Tags(q.job)
    BY <1>1, AnswerPlaces
  <1>3. request'[s] = Moved(moved, pc)
    BY DEF List, TypeInv, RequestsOK
  <1>4. CASE pc = "ok"
    BY <1>3, <1>4 DEF Moved, InFlight, Idle
  <1>5. CASE pc # "ok"
    <2>1. moved \in RequestRec
      BY <1>1, <1>2, <1>5, NewFields, Carded
    <2> HIDE DEF moved, pc
    <2> QED
      BY <1>2, <1>3, <2>1, MovedFields
  <1> QED
    BY <1>4, <1>5

\* The list of versions, and the removal of one.
LEMMA WholeLists ==
  ASSUME TypeInv, NEW s \in Slot, WholeCard(request[s].job), Midway(request[s]),
         "versions" \notin disturbed',
         List(s) \/ RemoveTarget(s)
  PROVE  Settles(s)
  <1> DEFINE q == request[s]
             r == request'[s]
             v == q.job.arg
  <1>0. /\ Placed(q, q.pc) /\ Typed(q) /\ q \in RequestRec /\ ~Fault(s)
        /\ active # NoDoc => active \in Doc
        /\ DocsOK /\ clock \in Nat /\ NoDoc \notin Doc /\ q.card \in Doc \cup {NoDoc}
    BY InPlace, WholeFails, CatalogConstants DEF TypeInv, RequestsOK, DocsOK
  <1>1. q.job.op \in {"register", "remove"} /\ q.job \in Job /\ v \in Version /\ q.card # NoDoc
    <2>1. q.job.op \in {"register", "remove"} /\ q.job \in Job /\ q.card # NoDoc
      BY <1>0 DEF List, RemoveTarget, Placed, OpsAt, InFlight, Pc
    <2> QED
      BY <1>0, <2>1, RequestFields DEF Arg
  <1>2. CASE List(s)
    <2>1. q.pc = "list"
      BY <1>2 DEF List
    <2>2. /\ Grouping(q) /\ active.ver \notin Stored(inactive)
          /\ q.job.op = "register" => /\ q.card.others \cup {v} = Stored(inactive)
                                      /\ promised \cup {v} = Stored(inactive) \cup {active.ver}
          /\ q.job.op = "remove" => /\ q.card.others \ {v} = Stored(inactive)
                                    /\ promised \ {v} = Stored(inactive) \cup {active.ver}
      BY <2>1 DEF Midway
    <2>3. active \in Doc /\ active # NoDoc /\ q.card.ver = active.ver /\ "version_group" \in q.card.has
      BY <1>0, <2>2 DEF Grouping, Current
    <2> DEFINE card == Listed(q)
               new == Overlay(active, card)
    <2>4. /\ card \in Doc /\ card.ver = active.ver /\ "version_group" \in card.has
          /\ card.others = Stored(inactive)
      BY <1>0, <1>1, <2>2, <2>3, ListedFields
    <2>5. new \in Doc /\ new.ver = active.ver /\ new.others = Stored(inactive)
      BY <1>0, <2>3, <2>4, OverlayFields
    <2>6. /\ active' = new /\ inactive' = inactive
          /\ promised' = IF q.job.op = "register" THEN promised \cup {v} ELSE promised \ {v}
      BY <1>0, <1>2, <2>3 DEF List, Landed
    <2> HIDE DEF new, card
    <2>7. promised' = Stored(inactive) \cup {active.ver}
      BY <1>1, <2>2, <2>6
    <2>8. Kept'
      BY <1>0, <2>2, <2>5, <2>6, <2>7, KeptThen
    <2>9. r.pc \in {"ok", "overrides", "disable"}
      <3>1. ~Replaced(s)
        BY WholeFails
      <3>2. ~Tags(q.job)
        BY <1>0, <1>2, <3>1 DEF List, Replaced
      <3> QED
        BY <1>2, <3>2, Listing
    <2> QED
      BY <2>8, <2>9, Rests
  <1>3. CASE RemoveTarget(s)
    <2>1. q.pc = "drop_target" /\ q.job.op = "remove" /\ UNCHANGED active
      BY <1>3 DEF RemoveTarget
    <2>2. Kept /\ Grouping(q)
      BY <2>1 DEF Midway
    <2>3. /\ active # NoDoc /\ q.card.others = active.others /\ v # active.ver
      BY <2>2 DEF Grouping, Current
    <2>4. /\ {active.ver} \cup Stored(inactive) = promised
          /\ active.others = Stored(inactive) /\ active.ver \notin Stored(inactive)
      BY <2>2, <2>3, KeptIs
    <2>5. CASE inactive[v] # NoDoc
      <3>1. v \in Stored(inactive)
        BY <1>1, <2>5 DEF Stored
      <3>2. /\ inactive' = [inactive EXCEPT ![v] = NoDoc] /\ To(s, "list") /\ promised' = promised
        BY <1>0, <1>3, <2>3, <2>4, <2>5, <3>1 DEF RemoveTarget
      <3>3. Stored(inactive') = Stored(inactive) \ {v}
        BY <1>0, <1>1, <3>2, StoredCleared
      <3>4. r.pc = "list" /\ r.job = q.job /\ r.card = q.card
        BY <3>2, ToFields DEF Pc, InFlight
      <3>5. Grouping(request[s])'
        BY <2>1, <2>2, <3>4 DEF Grouping, Current
      <3>6. /\ active'.ver \notin Stored(inactive')
            /\ r.card.others \ {v} = Stored(inactive')
            /\ promised' \ {v} = Stored(inactive') \cup {active'.ver}
        BY <2>1, <2>3, <2>4, <3>2, <3>3, <3>4
      <3>7. Midway(request[s])'
        BY <2>1, <3>4, <3>5, <3>6 DEF Midway
      <3> QED
        BY <3>4, <3>7 DEF Settles, Running, InFlight, Pc
    <2>6. CASE inactive[v] = NoDoc
      <3>1. UNCHANGED <<docs, promised>> /\ To(s, "refused")
        BY <1>0, <1>3, <2>6 DEF RemoveTarget, Refuse, docs
      <3> QED
        BY <2>2, <3>1, Untouched, Ends
    <2> QED
      BY <2>5, <2>6
  <1> QED
    BY <1>2, <1>3

\* The swap of the active version: two deletions, then two writes.
LEMMA WholeSwap ==
  ASSUME TypeInv, NEW s \in Slot, WholeCard(request[s].job), Midway(request[s]),
         "versions" \notin disturbed',
         DropActive(s) \/ DropTarget(s) \/ Promote(s) \/ Demote(s)
  PROVE  Settles(s)
  <1> DEFINE q == request[s]
             r == request'[s]
             v == q.job.arg
  <1>0. /\ Placed(q, q.pc) /\ Typed(q) /\ q \in RequestRec /\ ~Fault(s)
        /\ active # NoDoc => active \in Doc
        /\ DocsOK /\ clock \in Nat /\ NoDoc \notin Doc
    BY InPlace, WholeFails, CatalogConstants DEF TypeInv, RequestsOK, DocsOK
  <1>1. q.job.op = "default" /\ q.job \in Job /\ v \in Version /\ q.card \in Doc
    <2>1. q.job.op = "default" /\ q.job \in Job /\ q.card # NoDoc
      BY <1>0 DEF DropActive, DropTarget, Promote, Demote, Placed, OpsAt, InFlight, Pc
    <2> QED
      BY <1>0, <2>1, RequestFields DEF Arg
  <1>2. CASE DropActive(s)
    <2>1. q.pc = "drop" /\ active' = NoDoc /\ UNCHANGED <<inactive, promised>> /\ To(s, "drop_target")
      BY <1>0, <1>2 DEF DropActive
    <2>2. Kept /\ Grouping(q) /\ q.target.ver = v /\ v \in Stored(inactive)
      BY <2>1 DEF Midway
    <2>3. r.pc = "drop_target" /\ r.job = q.job /\ r.card = q.card /\ r.target = q.target
      BY <2>1, ToFields DEF Pc, InFlight
    <2>4. /\ q.card.others = Stored(inactive) /\ q.card.ver \notin Stored(inactive)
          /\ promised = Stored(inactive) \cup {q.card.ver}
      BY <2>2, KeptIs DEF Grouping, Current
    <2>5. Midway(request[s])'
      BY <1>1, <2>1, <2>2, <2>3, <2>4 DEF Midway
    <2> QED
      BY <2>3, <2>5 DEF Settles, Running, InFlight, Pc
  <1>3. CASE DropTarget(s)
    <2>1. /\ q.pc = "drop_target" /\ inactive' = [inactive EXCEPT ![v] = NoDoc]
          /\ UNCHANGED <<active, promised>> /\ To(s, "promote")
      BY <1>0, <1>3 DEF DropTarget
    <2>2. /\ active = NoDoc /\ q.target.ver = v /\ v \in Stored(inactive)
          /\ q.card.others = Stored(inactive) /\ q.card.ver \notin Stored(inactive)
          /\ promised = Stored(inactive) \cup {q.card.ver}
      BY <1>1, <2>1 DEF Midway
    <2>3. r.pc = "promote" /\ r.job = q.job /\ r.card = q.card /\ r.target = q.target
      BY <2>1, ToFields DEF Pc, InFlight
    <2>4. Stored(inactive') = Stored(inactive) \ {v}
      BY <1>0, <1>1, <2>1, StoredCleared
    <2>5. Midway(request[s])'
      BY <1>1, <2>1, <2>2, <2>3, <2>4 DEF Midway
    <2> QED
      BY <2>3, <2>5 DEF Settles, Running, InFlight, Pc
  <1>4. CASE Promote(s)
    <2>1. q.pc = "promote" /\ UNCHANGED <<inactive, promised>> /\ To(s, "demote")
      BY <1>4 DEF Promote
    <2>2. /\ active = NoDoc /\ q.target.ver = v /\ v \notin Stored(inactive) /\ v # q.card.ver
          /\ q.card.others \ {v} = Stored(inactive) /\ q.card.ver \notin Stored(inactive)
          /\ promised = Stored(inactive) \cup {q.card.ver, v}
      BY <2>1 DEF Midway
    <2> DEFINE new == Inserted(Promoted(q))
    <2>3. q.target # NoDoc /\ q.card # NoDoc
      BY <1>0, <1>1, <2>1 DEF Placed
    <2>4. /\ Promoted(q) \in Doc /\ Promoted(q).ver = v
          /\ Promoted(q).others = Stored(inactive) \cup {q.card.ver}
      BY <1>0, <1>1, <2>2, <2>3, SwapFields
    <2>5. new \in Doc /\ new.ver = v /\ new.others = Stored(inactive) \cup {q.card.ver}
      BY <1>0, <2>4, InsertedFields DEF Same
    <2>6. active' = new
      BY <1>0, <1>4, <2>2 DEF Promote
    <2>7. r.pc = "demote" /\ r.job = q.job /\ r.card = q.card /\ r.target = q.target
      BY <2>1, ToFields DEF Pc, InFlight
    <2> HIDE DEF new
    <2>8. Midway(request[s])'
      BY <1>0, <2>1, <2>2, <2>5, <2>6, <2>7 DEF Midway
    <2> QED
      BY <2>7, <2>8 DEF Settles, Running, InFlight, Pc
  <1>5. CASE Demote(s)
    <2>1. q.pc = "demote" /\ UNCHANGED <<active, promised>> /\ To(s, "ok")
      BY <1>5 DEF Demote
    <2>2. /\ active # NoDoc /\ active.ver = v /\ v \notin Stored(inactive) /\ v # q.card.ver
          /\ active.others = Stored(inactive) \cup {q.card.ver}
          /\ q.card.ver \notin Stored(inactive)
          /\ promised = Stored(inactive) \cup {q.card.ver, v}
      BY <2>1 DEF Midway
    <2> DEFINE new == Inserted(Demoted(q))
    <2>3. Demoted(q) \in Doc /\ q.card.ver \in Version
      BY <1>0, <1>1, SwapFields DEF Doc
    <2>4. new \in Doc
      BY <1>0, <2>3, InsertedFields
    <2>5. inactive[q.card.ver] = NoDoc
      BY <2>2, <2>3 DEF Stored
    <2>6. inactive' = [inactive EXCEPT ![q.card.ver] = new]
      BY <1>0, <1>5, <2>5 DEF Demote
    <2> HIDE DEF new
    <2>7. Stored(inactive') = Stored(inactive) \cup {q.card.ver}
      BY <1>0, <2>3, <2>4, <2>6, StoredSet
    <2>8. Kept'
      BY <2>1, <2>2, <2>7, KeptThen
    <2> QED
      BY <2>1, <2>8, Ends
  <1> QED
    BY <1>2, <1>3, <1>4, <1>5

\* A whole card written over the active document, and the deletion of all.
LEMMA WholeWrites ==
  ASSUME TypeInv, NEW s \in Slot, WholeCard(request[s].job), Midway(request[s]),
         "versions" \notin disturbed',
         Delete(s) \/ Write(s) \/ Unset(s) \/ Mark(s)
  PROVE  Settles(s)
  <1> DEFINE q == request[s]
             r == request'[s]
  <1>0. /\ Placed(q, q.pc) /\ Typed(q) /\ q \in RequestRec /\ ~Fault(s)
        /\ active # NoDoc => active \in Doc
        /\ DocsOK /\ clock \in Nat /\ NoDoc \notin Doc
    BY InPlace, WholeFails, CatalogConstants DEF TypeInv, RequestsOK, DocsOK
  <1>1. CASE Delete(s)
    <2>1. Kept /\ active # NoDoc
      BY <1>1 DEF Delete, Midway, Current
    <2>2. active' = NoDoc /\ inactive' = Survivors /\ promised' = {} /\ To(s, "ok")
      BY <1>0, <1>1, <2>1 DEF Delete
    <2>3. Stored(inactive') = {}
      BY <2>2 DEF Survivors, Stored
    <2>4. Kept'
      BY <2>2, <2>3, KeptThen
    <2> QED
      BY <2>2, <2>4, Ends
  <1>2. CASE Write(s)
    <2>1. /\ q.pc = "write" /\ q.job.op \in {"put", "patch", "clear", "fetch"}
          /\ q.job \in Job /\ UNCHANGED <<inactive, promised>>
      BY <1>0, <1>2, CatalogConstants DEF Write, WholeCard, Tags, ScanOf, Placed, InFlight, Pc
    <2>2. Kept /\ Current(q)
      BY <2>1 DEF Midway
    <2>3. active # NoDoc /\ q.card.ver = active.ver /\ q.card.others = active.others
      BY <2>2 DEF Current
    <2> DEFINE new == Edited(q)
               moved == [q EXCEPT !.card = Merged(q)]
               pc == AfterWrite(q)
    <2>4. EditOf(q, new)
      BY <2>1, <2>3, EditedFields
    <2>5. new \in Doc /\ new.ver = active.ver /\ new.others = active.others
      BY <2>1, <2>3, <2>4 DEF EditOf
    <2>6. active' = active \/ active' = new
      BY <1>2, <2>3 DEF Write, Landed, NoWrite
    <2>7. \/ To(s, "refused")
          \/ request' = [request EXCEPT ![s] = Moved(moved, pc)]
      BY <1>2 DEF Write, Refuse
    <2>8. /\ Merged(q) \in Doc /\ Merged(q).ver = q.card.ver /\ Merged(q).others = q.card.others
      <3>1. q.card \in Doc /\ q.id \in Nat
        BY <1>0, <2>1, RequestFields, CatalogConstants DEF Placed
      <3> QED
        BY <3>1, TextFields DEF Merged
    <2>9. moved \in RequestRec /\ moved.card = Merged(q)
      BY <1>0, <2>8, Carded
    <2>10. pc \in {"ok", "unset", "mark", "overrides", "disable"} /\ pc \in Pc
      BY <2>1, AnswerPlaces DEF AfterWrite, Pc
    <2> HIDE DEF new, moved, pc
    <2>11. Kept'
      BY <1>0, <2>1, <2>2, <2>3, <2>5, <2>6, KeptIs, KeptThen
    <2>12. CASE To(s, "refused")
      BY <2>11, <2>12, Ends
    <2>13. CASE request' = [request EXCEPT ![s] = Moved(moved, pc)]
      <3>1. r.pc = pc /\ (pc = "mark" => r.card = Merged(q))
        <4>1. r = Moved(moved, pc)
          BY <2>13 DEF TypeInv, RequestsOK
        <4> QED
          BY <2>9, <2>10, <4>1, MovedFields DEF InFlight
      <3>2. CASE pc = "mark"
        <4>1. Current(request[s])'
          BY <1>0, <2>3, <2>5, <2>6, <2>8, <3>1, <3>2 DEF Current
        <4>2. Midway(request[s])'
          BY <2>11, <3>1, <3>2, <4>1 DEF Midway
        <4> QED
          BY <3>1, <3>2, <4>2 DEF Settles, Running, InFlight, Pc
      <3> QED
        BY <2>10, <2>11, <3>1, <3>2, Rests
    <2> QED
      BY <2>7, <2>12, <2>13
  <1>3. CASE Unset(s)
    <2>1. Kept
      BY <1>3 DEF Unset, Midway
    <2>2. /\ active' = IF active = NoDoc THEN NoDoc ELSE CredentialUnset(active)
          /\ UNCHANGED <<inactive, promised>> /\ To(s, "ok")
      BY <1>0, <1>3 DEF Unset
    <2>3. active # NoDoc => /\ active' \in Doc /\ active'.ver = active.ver
                            /\ active'.others = active.others
      BY <1>0, <2>2, UnsetFields DEF Same
    <2>4. Kept'
      BY <1>0, <2>1, <2>2, <2>3, KeptIs, KeptThen
    <2> QED
      BY <2>2, <2>4, Ends
  <1>4. CASE Mark(s)
    <2>1. q.pc = "mark" /\ UNCHANGED <<inactive, promised>> /\ To(s, ScanFirst(q.job.scan))
      BY <1>4 DEF Mark
    <2>2. Kept /\ Current(q)
      BY <2>1 DEF Midway
    <2>3. /\ active # NoDoc /\ q.card.ver = active.ver /\ q.card.others = active.others
          /\ active \in Doc /\ q.card \in Doc
      BY <1>0, <2>1, <2>2, RequestFields DEF Current, Placed
    <2> DEFINE new == Overlay(active, q.card)
    <2>4. new \in Doc /\ new.ver = active.ver /\ new.others = active.others
      BY <1>0, <2>3, OverlayFields
    <2>5. active' = new
      BY <1>0, <1>4, <2>3 DEF Mark, Landed
    <2> HIDE DEF new
    <2>6. Kept'
      BY <1>0, <2>1, <2>2, <2>3, <2>4, <2>5, KeptIs, KeptThen
    <2>7. ScanFirst(q.job.scan) \in {"overrides", "disable"}
      BY DEF ScanFirst
    <2>8. r.pc \in {"overrides", "disable"}
      BY <2>1, <2>7, ToFields DEF Pc
    <2> QED
      BY <2>6, <2>8, Rests
  <1> QED
    BY <1>1, <1>2, <1>3, <1>4

\* A request that rewrites whole documents, undisturbed, brings the versions from
\* one stage to the next, and leaves them in order.
LEMMA WholeStep ==
  ASSUME TypeInv, Shape, NEW s \in Slot, Step(s), ~Arrive(s), WholeCard(request[s].job),
         Midway(request[s]), "versions" \notin disturbed'
  PROVE  Settles(s)
  <1>1. ~Fault(s) /\ Placed(request[s], request[s].pc)
    BY InPlace, WholeFails DEF TypeInv
  <1>2. ~ReadFails(s) /\ ~Crash(s)
    BY <1>1 DEF ReadFails, Crash
  <1>3. CASE ReadOverrides(s) \/ Reconcile(s) \/ Disable(s)
    <2>1. Kept
      BY <1>3 DEF ReadOverrides, Reconcile, Disable, Midway
    <2>2. Kept'
      BY <1>3, <2>1, ScanEdits, EditKeeps
    <2>3. request'[s].pc \in {"reconcile", "ok", "disable"}
      <3>1. CASE ReadOverrides(s)
        BY <3>1 DEF ReadOverrides, TypeInv, RequestsOK, RequestRec
      <3>2. CASE Reconcile(s) \/ Disable(s)
        <4>1. PICK pc \in {"ok", "disable"} : To(s, pc)
          BY <1>1, <3>2 DEF Reconcile, AfterReconcile, Disable
        <4> QED
          BY <4>1, ToFields DEF Pc
      <3> QED
        BY <1>3, <3>1, <3>2
    <2> QED
      BY <2>2, <2>3, Rests
  <1> QED
    BY <1>2, <1>3, WholeReads, WholeVersions, WholeLists, WholeSwap, WholeWrites DEF Step

LEMMA VersionStep ==
  ASSUME TypeInv, SeenInv, AloneInv, AloneInv', VersionInv, NEW s \in Slot, Step(s)
  PROVE  VersionInv'
  <1>0. Shape /\ Shape'
    BY ShapeStep DEF VersionInv
  <1> SUFFICES ASSUME "versions" \notin disturbed'
               PROVE  /\ (\A o \in Slot : ~Whole(o)') => Kept'
                      /\ \A o \in Slot : Whole(o)' => Midway(request[o])'
    BY <1>0 DEF VersionInv
  <1>1. "versions" \notin disturbed
    BY Grows
  <1>2. /\ (\A o \in Slot : ~Whole(o)) => Kept
        /\ \A o \in Slot : Whole(o) => Midway(request[o])
    BY <1>1 DEF VersionInv
  <1>3. \A o \in Slot \ {s} : request'[o] = request[o]
    BY Own, Arrival
  <1>4. \A o \in Slot, p \in Slot : Whole(o) /\ Whole(p) => o = p
    BY <1>1, Rewriting DEF AloneInv, Whole
  <1>5. \A o \in Slot, p \in Slot : Whole(o)' /\ Whole(p)' => o = p
    <2> SUFFICES ASSUME NEW o \in Slot, NEW p \in Slot, Whole(o)', Whole(p)', o # p PROVE FALSE
      OBVIOUS
    <2>1. Clash(request'[o].job, request'[p].job) \subseteq disturbed'
      BY DEF AloneInv, Whole
    <2>2. "versions" \in Clash(request'[o].job, request'[p].job)
      BY DEF Clash, Whole
    <2> QED
      BY <2>1, <2>2
  <1>6. \A o \in Slot \ {s} : Whole(o)' <=> Whole(o)
    BY <1>3 DEF Whole, Running
  <1>7. CASE Arrive(s)
    <2>1. EditOnly /\ request'[s].pc = "read" /\ ~Whole(s)
      BY <1>7, Arrival DEF Arrive, docs, EditOnly, Whole
    <2>2. Running(s)'
      BY <2>1 DEF Running, InFlight, Pc
    <2>3. Kept => Kept'
      BY <2>1, EditKeeps
    <2>4. \A o \in Slot \ {s} : Whole(o)' => Midway(request[o])'
      BY <1>2, <1>3, <1>6, <2>1, EditAside
    <2>5. Whole(s)' => Kept
      BY <1>2, <1>5, <1>6, <2>1
    <2>6. Whole(s)' => Midway(request[s])'
      BY <2>1, <2>3, <2>5 DEF Midway
    <2>7. (\A o \in Slot : ~Whole(o)') => Kept'
      BY <1>2, <1>6, <2>1, <2>3
    <2> QED
      BY <2>4, <2>6, <2>7
  <1>8. CASE ~Arrive(s) /\ ~WholeCard(request[s].job)
    <2>1. EditOnly /\ Running(s) /\ (Running(s)' => request'[s].job = request[s].job)
      BY <1>8, EditStep, Own
    <2>2. ~Whole(s) /\ ~Whole(s)'
      BY <1>8, <2>1 DEF Whole
    <2>3. \A o \in Slot : Whole(o)' => Midway(request[o])'
      BY <1>2, <1>3, <1>6, <2>1, <2>2, EditAside
    <2>4. (\A o \in Slot : ~Whole(o)') => Kept'
      BY <1>2, <1>6, <2>1, <2>2, EditKeeps
    <2> QED
      BY <2>3, <2>4
  <1>9. CASE ~Arrive(s) /\ WholeCard(request[s].job)
    <2>1. Whole(s)
      BY <1>9, Own DEF Whole
    <2>2. Settles(s)
      BY <1>0, <1>2, <1>9, <2>1, WholeStep
    <2>3. \A o \in Slot \ {s} : ~Whole(o)'
      BY <1>4, <1>6, <2>1
    <2>4. Running(s)' => WholeCard(request'[s].job)
      BY <1>9, Own
    <2>5. Whole(s)' <=> Running(s)'
      BY <2>4 DEF Whole
    <2> QED
      BY <2>2, <2>3, <2>5 DEF Settles
  <1> QED
    BY <1>7, <1>8, <1>9

LEMMA VersionInit == Init => VersionInv
  <1> SUFFICES ASSUME NEW s \in First, Init, active = s.active, inactive = s.inactive,
                      promised = Versions(s), request = [r \in Slot |-> Idle]
               PROVE  VersionInv
    BY DEF Init
  <1>1. WellStored(s)
    BY FirstStored
  <1>2. Shape
    BY <1>1 DEF Shape, WellStored
  <1>3. Kept
    <2>1. promised = (IF active = NoDoc THEN {} ELSE {active.ver}) \cup Stored(inactive)
      BY DEF Versions, Stored
    <2> QED
      BY <1>1, <2>1, KeptIs DEF WellStored
  <1>4. \A o \in Slot : ~Whole(o)
    BY DEF Whole, Running, InFlight, Idle
  <1> QED
    BY <1>2, <1>3, <1>4 DEF VersionInv

LEMMA VersionInvariance == Spec => [](TypeInv /\ SeenInv /\ AloneInv /\ VersionInv)
  <1>1. Init => AloneInv
    BY DEF Init, AloneInv, Running, InFlight, Idle
  <1>2. TypeInv /\ SeenInv /\ AloneInv /\ [Next]_vars => AloneInv'
    <2>1. AloneInv /\ UNCHANGED vars => AloneInv'
      BY DEF vars, history, AloneInv, Running
    <2> QED
      BY <2>1, Steps, AloneStep
  <1>3. TypeInv /\ SeenInv /\ AloneInv /\ AloneInv' /\ VersionInv /\ [Next]_vars => VersionInv'
    <2>1. VersionInv /\ UNCHANGED vars => VersionInv'
      <3> SUFFICES ASSUME VersionInv, UNCHANGED vars PROVE VersionInv'
        OBVIOUS
      <3>1. UNCHANGED <<active, inactive, request, promised, disturbed>>
        BY DEF vars, docs, history
      <3>2. EditOnly
        BY <3>1 DEF EditOnly
      <3>3. Shape' /\ (Kept => Kept')
        BY <3>1, <3>2, EditKeeps DEF VersionInv, Shape, Stored
      <3>4. \A o \in Slot : (Whole(o)' <=> Whole(o)) /\ (Midway(request[o]) => Midway(request[o])')
        BY <3>1, <3>2, EditAside DEF Whole, Running
      <3> QED
        BY <3>1, <3>3, <3>4 DEF VersionInv
    <2> QED
      BY <2>1, Steps, VersionStep
  <1> QED
    BY <1>1, <1>2, <1>3, VersionInit, SeenInvariance, PTL DEF Spec

\* For any requests, beside any number of toggles, patches, tool decisions, scans
\* and conditional edits: requests that rewrite whole documents one at a time, tool
\* fetches and edits whose scan tags the server among them, lose no version and
\* bring back none, where none of their calls fails and no tag makes a version
\* the active one.
THEOREM VersionsNeverLost == Spec => []VersionsKept
  <1>1. VersionInv => VersionsKept
    BY DEF VersionInv, Kept, Whole, Stored, VersionsKept
  <1> QED
    BY <1>1, VersionInvariance, PTL

-----------------------------------------------------------------------------
(* The decisions stand *)

\* Nothing disturbs the decisions: a request that rewrites whole documents is
\* alone, and no tool decision falls into a scan.
Calm == disturbed' \cap {"decisions", "scan"} = {}

LEMMA AloneThen ==
  ASSUME TypeInv, AloneInv, NEW s \in Slot, Step(s), Calm, ~Arrive(s)
  PROVE  LET q == request[s]
         IN  /\ disturbed \cap {"decisions", "scan"} = {} /\ ~Replaced(s)
             /\ WholeCard(q.job) => ~Fault(s) /\ \A o \in Slot \ {s} : ~Running(o)
             /\ \A o \in Slot \ {s} : ~Whole(o)
             /\ q.job.op = "tool" => \A o \in Slot \ {s} : request[o].pc # "reconcile"
  <1>1. Running(s) /\ disturbed \subseteq disturbed'
    BY Own, Grows
  <1>2. disturbed \cap {"decisions", "scan"} = {}
    BY <1>1 DEF Calm
  <1>3. (WholeCard(request[s].job) => ~Fault(s)) /\ ~Replaced(s)
    BY WholeFails DEF Calm
  <1>4. ASSUME NEW o \in Slot \ {s}, Running(o)
        PROVE  /\ ~WholeCard(request[s].job) /\ ~WholeCard(request[o].job)
               /\ request[s].job.op = "tool" => request[o].pc # "reconcile"
    <2>1. Clash(request[s].job, request[o].job) \subseteq disturbed
      BY <1>1, <1>4 DEF AloneInv
    <2>2. ~WholeCard(request[s].job) /\ ~WholeCard(request[o].job)
      BY <1>2, <2>1 DEF Clash
    <2>3. ASSUME request[s].job.op = "tool", request[o].pc = "reconcile" PROVE FALSE
      <3>1. request[o].job.scan # NoDoc
        BY <2>3, InPlace, CatalogConstants DEF TypeInv, Placed
      <3> QED
        BY <1>2, <2>1, <2>3, <3>1 DEF Clash
    <2> QED
      BY <2>2, <2>3
  <1> QED
    BY <1>2, <1>3, <1>4 DEF Whole, Running, InFlight, Pc

\* What is left of a request that has created the server or written to it: nothing
\* once it is refused; the card it has written, where its scan starts.
LEMMA Answered ==
  ASSUME TypeInv, NEW s \in Slot, CreateServer(s) \/ Write(s)
  PROVE  LET q == request[s]
             r == request'[s]
         IN  \/ r.pc = "refused"
             \/ /\ r.pc \in {"ok", "unset", "mark", "overrides", "disable"}
                /\ Running(s)' => /\ CreateServer(s) => r.card = NewServer(q)
                                  /\ Write(s) => r.card = Merged(q)
                /\ CreateServer(s) => active' = Inserted(NewServer(q))
                /\ Write(s) => active # NoDoc
  <1> DEFINE q == request[s]
             r == request'[s]
  <1>0. /\ Typed(q) /\ q \in RequestRec /\ request \in [Slot -> RequestRec]
        /\ q.job \in Job /\ q.job.op # "scan" /\ q.pc \in {"create", "write"}
        /\ q.pc = "write" => q.card \in Doc
        /\ q.id \in Nat
    BY InPlace, CatalogConstants DEF TypeInv, RequestsOK, CreateServer, Write, Placed, InFlight, Pc
  <1>1. CASE To(s, "refused")
    BY <1>1, ToFields DEF Pc
  <1>2. CASE CreateServer(s) /\ ~To(s, "refused")
    <2> DEFINE card == NewServer(q)
               moved == [q EXCEPT !.card = card]
               pc == AfterAnswer(q)
    <2>1. /\ active' = Inserted(card) /\ request' = [request EXCEPT ![s] = Moved(moved, pc)]
          /\ q.pc = "create" /\ q.job.op = "register"
      BY <1>2 DEF CreateServer, Refuse
    <2>2. pc \in {"ok", "mark", "overrides", "disable"} /\ pc \in Pc
      BY <1>0, AnswerPlaces
    <2>3. card \in Doc
      BY <1>0, <2>1, NewFields
    <2>4. moved \in RequestRec /\ moved.card = card
      BY <1>0, <2>3, Carded
    <2>5. r = Moved(moved, pc)
      BY <1>0, <2>1
    <2> HIDE DEF moved, pc, card
    <2>6. r.pc = pc /\ (pc \in InFlight => r.card = card)
      BY <2>2, <2>4, <2>5, MovedFields
    <2>7. ~Write(s)
      BY <2>1 DEF Write
    <2> QED
      BY <2>1, <2>2, <2>6, <2>7 DEF card, Running
  <1>3. CASE Write(s) /\ ~To(s, "refused")
    <2> DEFINE card == Merged(q)
               moved == [q EXCEPT !.card = card]
               pc == AfterWrite(q)
    <2>1. /\ active # NoDoc /\ request' = [request EXCEPT ![s] = Moved(moved, pc)]
          /\ q.pc = "write"
      BY <1>3 DEF Write, Refuse
    <2>2. pc \in {"ok", "unset", "mark", "overrides", "disable"} /\ pc \in Pc
      BY <1>0, AnswerPlaces DEF AfterWrite, Pc
    <2>3. card \in Doc
      BY <1>0, <2>1, TextFields DEF Merged
    <2>4. moved \in RequestRec /\ moved.card = card
      BY <1>0, <2>3, Carded
    <2>5. r = Moved(moved, pc)
      BY <1>0, <2>1
    <2> HIDE DEF moved, pc, card
    <2>6. r.pc = pc /\ (pc \in InFlight => r.card = card)
      BY <2>2, <2>4, <2>5, MovedFields
    <2>7. ~CreateServer(s)
      BY <2>1 DEF CreateServer
    <2> QED
      BY <2>1, <2>2, <2>6, <2>7 DEF card, Running
  <1> QED
    BY <1>1, <1>2, <1>3

\* A card is held from the first read on; only a scan that reads overrides gets
\* to where it writes them.
LEMMA HeldBefore ==
  ASSUME TypeInv, NEW s \in Slot, Step(s), ~Arrive(s), ~Read(s)
  PROVE  LET q == request[s]
             r == request'[s]
         IN  /\ r.pc \in Held => q.pc \in Held \/ ReadFails(s)
             /\ r.pc = "reconcile" => ReadOverrides(s)
  <1> DEFINE r == request'[s]
  <1>0. request[s] \in RequestRec /\ request \in [Slot -> RequestRec]
    BY InPlace DEF TypeInv, RequestsOK
  <1>1. ASSUME NEW pc \in Pc, To(s, pc) PROVE r.pc = pc
    BY <1>1, ToFields
  <1>2. CASE ReadFails(s)
    <2>1. PICK pc \in {"create", "refused"} : To(s, pc)
      BY <1>2 DEF ReadFails
    <2> QED
      BY <1>1, <1>2, <2>1 DEF Pc
  <1>3. CASE Crash(s)
    BY <1>1, <1>3 DEF Crash, Held, Pc
  <1>4. CASE Group(s)
    BY <1>0, <1>4 DEF Group, Held, RequestRec
  <1>5. CASE ReadOverrides(s)
    BY <1>0, <1>5 DEF ReadOverrides, Held, RequestRec
  <1>6. CASE FindTarget(s)
    <2>1. request[s].pc = "target"
      BY <1>6 DEF FindTarget
    <2>2. r.pc # "reconcile"
      <3> DEFINE v == request[s].job.arg
                 new == [request[s] EXCEPT !.target = inactive[v]]
                 pc == IF inactive[v] = NoDoc THEN "refused"
                       ELSE IF request[s].job.op = "remove" THEN "drop_target" ELSE "drop"
      <3>1. r = Moved(new, pc) /\ pc \in {"refused", "drop_target", "drop"}
        BY <1>0, <1>6 DEF FindTarget
      <3>2. v \in Version
        <4>1. request[s].job \in Job /\ request[s].job.op \in {"default", "remove"}
          BY <2>1, InPlace DEF TypeInv, Placed, OpsAt, InFlight, Pc
        <4> QED
          BY <4>1, CatalogConstants DEF Arg
      <3>3. new \in RequestRec
        BY <1>0, <3>2 DEF RequestRec, TypeInv, DocsOK
      <3> HIDE DEF new, pc
      <3> QED
        BY <3>1, <3>3, MovedFields DEF Pc
    <2> QED
      BY <1>6, <2>1, <2>2 DEF Held
  <1>7. CASE CheckVersion(s) \/ CreateVersion(s)
    <2>1. PICK pc \in {"create", "refused", "list"} : To(s, pc)
      BY <1>7 DEF CheckVersion, CreateVersion, Refuse
    <2>2. request[s].pc \in Held /\ pc \in Pc
      BY <1>7 DEF CheckVersion, CreateVersion, Held, Pc
    <2> QED
      BY <1>1, <2>1, <2>2
  <1>10. CASE List(s)
    <2>1. request[s].pc \in Held
      BY <1>10 DEF List, Held
    <2> QED
      BY <1>10, <2>1, Listing
  <1>11. CASE CreateServer(s) \/ Write(s)
    <2>1. request[s].pc \in Held
      BY <1>11 DEF CreateServer, Write, Held
    <2> QED
      BY <1>11, <2>1, Answered
  <1>8. CASE RemoveTarget(s) \/ DropActive(s) \/ DropTarget(s)
    <2>1. PICK pc \in {"list", "ok", "refused", "drop_target", "promote"} : To(s, pc)
      BY <1>8 DEF RemoveTarget, DropActive, DropTarget, Refuse
    <2>2. request[s].pc \in Held /\ pc \in Pc
      BY <1>8 DEF RemoveTarget, DropActive, DropTarget, Held, Pc
    <2> QED
      BY <1>1, <2>1, <2>2
  <1>9. CASE Promote(s) \/ Demote(s) \/ Delete(s) \/ Unset(s) \/ Mark(s) \/ Reconcile(s) \/ Disable(s)
    <2>1. PICK pc \in {"demote", "ok", "refused", "overrides", "disable"} : To(s, pc)
      BY <1>9 DEF Promote, Demote, Delete, Unset, Mark, ScanFirst, Reconcile, AfterReconcile,
                  Disable, Refuse
    <2>2. pc \in Pc /\ pc \notin Held /\ pc # "reconcile"
      BY <2>1 DEF Pc, Held
    <2> QED
      BY <1>1, <2>1, <2>2
  <1> QED
    BY <1>2, <1>3, <1>4, <1>5, <1>6, <1>7, <1>8, <1>9, <1>10, <1>11 DEF Step

LEMMA SameDecisions == \A d, e : d.enabled = e.enabled /\ d.overrides = e.overrides
                                    => Decisions(d) = Decisions(e)
  BY DEF Decisions

\* Most steps leave what the active document says about being on, and about tools.
Keeping ==
    /\ decided' = decided
    /\ active' # NoDoc => /\ active # NoDoc
                          /\ active'.enabled = active.enabled /\ active'.overrides = active.overrides

LEMMA Keeps ==
  ASSUME TypeInv, SeenInv, AloneInv, DecisionInv, NEW s \in Slot, Step(s), ~Arrive(s), Calm,
         ~CreateServer(s), ~Promote(s), ~Reconcile(s), ~Disable(s),
         Write(s) => request[s].job.op \notin {"toggle", "tool"}
  PROVE  Keeping
  <1> DEFINE q == request[s]
  <1>0. /\ Placed(q, q.pc) /\ Typed(q) /\ Running(s)
        /\ active # NoDoc => active \in Doc
        /\ clock \in Nat /\ NoDoc \notin Doc /\ q.card \in Doc \cup {NoDoc}
        /\ WholeCard(q.job) => ~Fault(s)
    BY InPlace, Own, AloneThen, CatalogConstants DEF TypeInv, DocsOK
  <1>1. active # NoDoc /\ Whole(s) /\ q.card # NoDoc /\ q.pc \in Held => Agrees(q)
    BY AloneThen DEF DecisionInv
  <1>2. CASE Read(s) \/ ReadFails(s) \/ Crash(s) \/ CheckVersion(s) \/ FindTarget(s) \/ ReadOverrides(s)
    BY <1>2 DEF Read, ReadFails, Crash, CheckVersion, FindTarget, ReadOverrides, docs, history, Keeping
  <1>3. ASSUME NEW card \in Doc, card.enabled = active.enabled, card.overrides = active.overrides,
               active # NoDoc
        PROVE  LET new == Overlay(active, card)
               IN  new.enabled = active.enabled /\ new.overrides = active.overrides
    BY <1>0, <1>3, OverlayFields
  <1>4. CASE Group(s)
    <2>1. Whole(s) /\ q.pc \in Held /\ q.card \in Doc /\ decided' = decided
      BY <1>0, <1>4 DEF Group, Placed, OpsAt, Whole, WholeCard, Held
    <2>2. /\ Grouped(q.card) \in Doc /\ Grouped(q.card).enabled = q.card.enabled
          /\ Grouped(q.card).overrides = q.card.overrides
      BY <2>1, GroupedFields
    <2>3. active' = active \/ (active # NoDoc /\ active' = Overlay(active, Grouped(q.card)))
      BY <1>4 DEF Group, Landed, NoWrite
    <2> QED
      BY <1>0, <1>1, <1>3, <2>1, <2>2, <2>3 DEF Agrees, Keeping
  <1>5. CASE List(s)
    <2>1. /\ Whole(s) /\ q.pc \in Held /\ q.card \in Doc /\ decided' = decided
          /\ q.job \in Job /\ q.job.op \in {"register", "remove"}
      BY <1>0, <1>5 DEF List, Placed, OpsAt, Whole, WholeCard, Held, Running
    <2>2. /\ Listed(q) \in Doc /\ Listed(q).enabled = q.card.enabled
          /\ Listed(q).overrides = q.card.overrides
      BY <1>0, <2>1, ListedFields
    <2>3. active' = active \/ (active # NoDoc /\ active' = Overlay(active, Listed(q)))
      BY <1>5 DEF List, Landed, NoWrite
    <2> QED
      BY <1>0, <1>1, <1>3, <2>1, <2>2, <2>3 DEF Agrees, Keeping
  <1>6. CASE CreateVersion(s) \/ RemoveTarget(s) \/ DropTarget(s) \/ Demote(s)
    BY <1>6 DEF CreateVersion, RemoveTarget, DropTarget, Demote, Keeping
  <1>7. CASE DropActive(s) \/ Delete(s)
    BY <1>7 DEF DropActive, Delete, docs, Keeping
  <1>8. CASE Write(s)
    <2>1. q.pc = "write" /\ q.job.op \in {"put", "patch", "clear", "fetch"} /\ decided' = decided
      BY <1>8 DEF Write, Established
    <2>2. active' = active \/ (active # NoDoc /\ active' = Edited(q) /\ Expected(q))
      BY <1>8 DEF Write, Landed, NoWrite
    <2>3. ASSUME active # NoDoc, Expected(q)
          PROVE  Edited(q).enabled = active.enabled /\ Edited(q).overrides = active.overrides
      <3>1. EditOf(q, Edited(q))
        BY <2>1, <2>3, EditedFields
      <3>2. CASE q.job.op = "patch"
        BY <3>1, <3>2 DEF EditOf
      <3>3. CASE q.job.op \in {"put", "clear", "fetch"}
        <4>1. q.card.enabled = active.enabled /\ q.card.overrides = active.overrides
          <5>1. CASE IfMatch(q)
            <6>1. active.rev = q.card.rev
              BY <2>3, <5>1 DEF Expected
            <6>2. Same(active, q.card)
              BY <1>0, <2>1, <2>3, <5>1, <6>1 DEF SeenInv
            <6> QED
              BY <6>2 DEF Same
          <5>2. CASE ~IfMatch(q)
            <6>1. Whole(s) /\ q.card # NoDoc /\ q.pc \in Held
              BY <1>0, <2>1, <3>3, <5>2 DEF Whole, WholeCard, IfMatch, Placed, Held
            <6> QED
              BY <1>1, <2>3, <6>1 DEF Agrees
          <5> QED
            BY <5>1, <5>2
        <4> QED
          BY <3>1, <3>3, <4>1 DEF EditOf
      <3> QED
        BY <2>1, <3>2, <3>3
    <2> QED
      BY <2>1, <2>2, <2>3 DEF Keeping
  <1>9. CASE Unset(s)
    <2>1. decided' = decided /\ (active' = active \/ (active # NoDoc /\ active' = CredentialUnset(active)))
      BY <1>9 DEF Unset
    <2>2. active # NoDoc => /\ CredentialUnset(active).enabled = active.enabled
                            /\ CredentialUnset(active).overrides = active.overrides
      BY <1>0, UnsetFields DEF Same
    <2> QED
      BY <2>1, <2>2 DEF Keeping
  <1>10. CASE Mark(s)
    <2>1. /\ Whole(s) /\ q.pc \in Held /\ q.card \in Doc /\ q.card # NoDoc
          /\ decided' = decided
      BY <1>0, <1>10 DEF Mark, Placed, Whole, WholeCard, Held
    <2>2. active' = active \/ (active # NoDoc /\ active' = Overlay(active, q.card))
      BY <1>10 DEF Mark, Landed, NoWrite
    <2> QED
      BY <1>0, <1>1, <1>3, <2>1, <2>2 DEF Agrees, Keeping
  <1> QED
    BY <1>2, <1>4, <1>5, <1>6, <1>7, <1>8, <1>9, <1>10 DEF Step

\* What the document says after a step is what was decided by then.
LEMMA StandStep ==
  ASSUME TypeInv, SeenInv, AloneInv, DecisionInv, NEW s \in Slot, Step(s), ~Arrive(s), Calm,
         active' # NoDoc
  PROVE  Decisions(active') = decided'
  <1> DEFINE q == request[s]
             new == active'
  <1>0. /\ Placed(q, q.pc) /\ Typed(q) /\ Running(s) /\ q.job \in Job /\ q.job.arg \in Arg(q.job.op)
        /\ active # NoDoc => active \in Doc /\ Decisions(active) = decided
        /\ clock \in Nat /\ NoDoc \notin Doc /\ q.card \in Doc \cup {NoDoc}
        /\ decided \in [enabled : BOOLEAN, tools : [Tool -> Admin \cup {"none"}]]
        /\ WholeCard(q.job) => ~Fault(s)
    BY InPlace, Own, AloneThen, CatalogConstants DEF TypeInv, DocsOK, HistoryOK, DecisionInv
  <1>1. CASE Keeping
    BY <1>0, <1>1, SameDecisions DEF Keeping
  <1>2. CASE active' = active /\ decided' = decided
    BY <1>0, <1>2
  <1>3. CASE CreateServer(s)
    <2>1. WholeCard(q.job) /\ q.job.op = "register"
      BY <1>3 DEF CreateServer, WholeCard
    <2>2. CASE active = NoDoc
      <3>1. /\ active' = Inserted(NewServer(q))
            /\ decided' = [enabled |-> FALSE, tools |-> NewServer(q).overrides]
        BY <1>0, <1>3, <2>1, <2>2 DEF CreateServer, Refuse, NoWrite
      <3>2. /\ NewServer(q) \in Doc /\ NewServer(q).enabled = FALSE
            /\ NewServer(q).overrides = [t \in Tool |-> "none"]
        BY <1>0, <2>1, NewFields
      <3>3. new.enabled = FALSE /\ new.overrides = [t \in Tool |-> "none"]
        BY <1>0, <3>1, <3>2, InsertedFields DEF Same
      <3> QED
        BY <3>1, <3>2, <3>3 DEF Decisions, Admin
    <2>3. CASE active # NoDoc
      BY <1>0, <1>2, <1>3, <2>1, <2>3 DEF CreateServer, NoWrite, history
    <2> QED
      BY <2>2, <2>3
  <1>4. CASE Promote(s)
    <2>1. WholeCard(q.job)
      BY <1>0, <1>4 DEF Promote, Placed, OpsAt, WholeCard
    <2> QED
      BY <1>0, <1>2, <1>4, <2>1 DEF Promote, NoWrite
  <1>5. ASSUME NEW on \in BOOLEAN, active # NoDoc, active' = StateSet(active, on),
               decided' = [decided EXCEPT !.enabled = on]
        PROVE  Decisions(active') = decided'
    <2>1. new.enabled = on /\ new.overrides = active.overrides
      BY <1>0, <1>5, StateFields
    <2>2. decided' = [enabled |-> on, tools |-> decided.tools]
      BY <1>0, <1>5
    <2>3. decided.tools = Decisions(active).tools
      BY <1>0, <1>5
    <2> QED
      BY <2>1, <2>2, <2>3 DEF Decisions
  <1>6. CASE Disable(s)
    <2>1. \/ active' = active /\ decided' = decided
          \/ active # NoDoc /\ active' = StateSet(active, FALSE) /\ decided' = [decided EXCEPT !.enabled = FALSE]
      BY <1>6 DEF Disable, Landed, NoWrite
    <2> QED
      BY <1>2, <1>5, <2>1
  <1>7. CASE Write(s) /\ q.job.op \in {"toggle", "tool"}
    <2>1. \/ active' = active /\ decided' = decided
          \/ active # NoDoc /\ active' = Edited(q) /\ decided' = Established(q)
      BY <1>7 DEF Write, Landed, NoWrite
    <2>2. CASE q.job.op = "toggle" /\ active # NoDoc /\ active' = Edited(q) /\ decided' = Established(q)
      BY <1>0, <1>5, <2>2 DEF Edited, Established, Arg
    <2>3. CASE q.job.op = "tool" /\ active # NoDoc /\ active' = Edited(q) /\ decided' = Established(q)
      <3> DEFINE t == q.job.arg[1]
                 d == q.job.arg[2]
      <3>1. t \in Tool /\ d \in Admin
        BY <1>0, <2>3 DEF Arg
      <3>2. EditOf(q, Edited(q))
        BY <1>7, <2>3, EditedFields DEF Write
      <3>3. /\ new \in Doc /\ new.enabled = active.enabled
            /\ new.overrides = [active.overrides EXCEPT ![t] = d]
        BY <2>3, <3>2 DEF EditOf
      <3>4. decided' = [decided EXCEPT !.tools[t] = d]
        BY <2>3 DEF Established
      <3> HIDE DEF t, d
      <3>5. decided' = [enabled |-> decided.enabled, tools |-> [decided.tools EXCEPT ![t] = d]]
        BY <1>0, <3>4
      <3>6. /\ decided.enabled = active.enabled
            /\ \A u \in Tool : decided.tools[u] = IF active.overrides[u] \in Admin THEN active.overrides[u]
                                                  ELSE "none"
        BY <1>0, <2>3 DEF Decisions
      <3>7. active.overrides \in [Tool -> Decision]
        BY <1>0, <2>3 DEF Doc
      <3>8. [u \in Tool |-> IF new.overrides[u] \in Admin THEN new.overrides[u] ELSE "none"]
              = [decided.tools EXCEPT ![t] = d]
        BY <1>0, <3>1, <3>3, <3>6, <3>7
      <3> QED
        BY <3>3, <3>5, <3>6, <3>8 DEF Decisions
    <2> QED
      BY <1>2, <1>7, <2>1, <2>2, <2>3
  <1>8. CASE Reconcile(s)
    <2>1. \/ active' = active /\ decided' = decided
          \/ active # NoDoc /\ active' = OverridesReplaced(active, Reconciled(q)) /\ decided' = decided
      BY <1>8 DEF Reconcile, Landed, NoWrite
    <2>2. CASE active # NoDoc /\ active' = OverridesReplaced(active, Reconciled(q)) /\ decided' = decided
      <3>1. q.card # NoDoc /\ Decisions(q.card).tools = decided.tools
        BY <1>8, <2>2, AloneThen DEF Reconcile, DecisionInv
      <3>2. Reconciled(q) \in [Tool -> Decision]
        BY <1>0, ReconciledType
      <3>3. new.enabled = active.enabled /\ new.overrides = Reconciled(q)
        BY <1>0, <2>2, <3>2, OverrideFields
      <3>4. \A t \in Tool : (IF Reconciled(q)[t] \in Admin THEN Reconciled(q)[t] ELSE "none")
                              = Decisions(q.card).tools[t]
        BY <3>1 DEF Reconciled, Overrides, Decisions, Admin
      <3>5. Decisions(new).tools = Decisions(q.card).tools
        BY <3>3, <3>4 DEF Decisions
      <3>6. Decisions(new).enabled = Decisions(active).enabled
        BY <3>3 DEF Decisions
      <3>7. Decisions(new).tools = decided.tools /\ Decisions(new).enabled = decided.enabled
        BY <1>0, <2>2, <3>1, <3>5, <3>6
      <3>8. Decisions(new) = [enabled |-> Decisions(new).enabled, tools |-> Decisions(new).tools]
        BY DEF Decisions
      <3>9. decided = [enabled |-> decided.enabled, tools |-> decided.tools]
        BY <1>0
      <3> QED
        BY <2>2, <3>7, <3>8, <3>9
    <2> QED
      BY <1>2, <2>1, <2>2
  <1> QED
    BY <1>1, <1>3, <1>4, <1>6, <1>7, <1>8, Keeps

LEMMA ReadsCard ==
  ASSUME TypeInv, NEW s \in Slot, Read(s) \/ ReadOverrides(s)
  PROVE  /\ Running(s)' => request'[s].card = active
         /\ Read(s) => request'[s].pc # "reconcile"
         /\ UNCHANGED <<active, decided>>
  <1> DEFINE q == request[s]
  <1>0. q \in RequestRec /\ request \in [Slot -> RequestRec] /\ active \in Doc \cup {NoDoc}
    BY InPlace DEF TypeInv, RequestsOK, DocsOK
  <1>1. CASE Read(s)
    <2> DEFINE new == [q EXCEPT !.card = active]
    <2>1. new \in RequestRec /\ new.card = active
      BY <1>0 DEF RequestRec
    <2>2. AfterRead(q) \in Pc /\ AfterRead(q) # "reconcile"
      BY DEF AfterRead, ScanFirst, Pc
    <2>3. request'[s] = Moved(new, AfterRead(q)) /\ q.pc = "read" /\ UNCHANGED <<active, decided>>
      BY <1>0, <1>1 DEF Read, docs, history
    <2> HIDE DEF new
    <2> QED
      BY <2>1, <2>2, <2>3, MovedFields DEF Running
  <1>2. CASE ReadOverrides(s)
    <2>1. q.pc = "overrides" /\ request'[s].card = active /\ UNCHANGED <<active, decided>>
      BY <1>0, <1>2 DEF ReadOverrides, RequestRec, docs, history
    <2> QED
      BY <2>1 DEF Read
  <1> QED
    BY <1>1, <1>2

\* A request that has promoted a version, or that reconciles or disables, holds no
\* card any more.
LEMMA HeldNoMore ==
  ASSUME TypeInv, NEW s \in Slot, Promote(s) \/ Reconcile(s) \/ Disable(s)
  PROVE  request'[s].pc \notin Held
  <1>1. PICK pc \in {"demote", "ok", "refused", "disable"} : To(s, pc)
    BY DEF Promote, Reconcile, AfterReconcile, Disable, Refuse
  <1>2. pc \in Pc /\ pc \notin Held
    BY DEF Pc, Held
  <1> QED
    BY <1>1, <1>2, ToFields

\* The card a request holds after its step.
LEMMA HeldStep ==
  ASSUME TypeInv, SeenInv, AloneInv, DecisionInv, NEW s \in Slot, Step(s), ~Arrive(s), Calm,
         active' # NoDoc, Whole(s)', request'[s].card # NoDoc, request'[s].pc \in Held
  PROVE  Agrees(request[s])'
  <1> DEFINE q == request[s]
             r == request'[s]
  <1> SUFFICES r.card.enabled = active'.enabled /\ r.card.overrides = active'.overrides
    BY DEF Agrees
  <1>1. CASE Read(s) \/ ReadOverrides(s)
    BY <1>1, ReadsCard DEF Whole
  <1>2. CASE CreateServer(s)
    <2>1. r.card = NewServer(q) /\ active' = Inserted(NewServer(q))
      BY <1>2, Answered DEF Held, Whole
    <2>2. q.job \in Job /\ q.job.op = "register" /\ Typed(q) /\ clock \in Nat
      BY <1>2, InPlace DEF TypeInv, DocsOK, CreateServer, Placed, InFlight, Pc
    <2>3. NewServer(q) \in Doc
      BY <2>2, NewFields
    <2> QED
      BY <2>1, <2>2, <2>3, InsertedFields DEF Same
  <1>3. CASE ~Read(s) /\ ~ReadOverrides(s) /\ ~CreateServer(s)
    <2>0. ~List(s) \/ r.pc # "mark"
      BY Listing, AloneThen, Grows DEF Replaced, List, Fault
    <2>1. /\ Whole(s) /\ r.job = q.job
          /\ \/ r.card = q.card
             \/ Group(s) /\ r.card = Grouped(q.card)
             \/ Write(s) /\ r.card = Merged(q)
      <3>1. ~List(s)
        BY <2>0, Listing DEF Held
      <3> QED
        BY <1>3, <3>1, Own DEF Whole
    <2>2. q.pc \in Held
      <3>1. ~ReadFails(s)
        BY <2>1, AloneThen DEF ReadFails, Whole
      <3> QED
        BY <1>3, <3>1, HeldBefore
    <2>3. Keeping
      <3>1. Write(s) => q.job.op \notin {"toggle", "tool"}
        BY <2>1, InPlace, CatalogConstants DEF TypeInv, Whole, WholeCard, Tags, ScanOf
      <3> QED
        BY <1>3, <3>1, HeldNoMore, Keeps
    <2>4. q.card \in Doc /\ r.card.enabled = q.card.enabled /\ r.card.overrides = q.card.overrides
      <3>1. /\ q.card \in Doc \cup {NoDoc} /\ q.id \in Nat
            /\ Group(s) \/ Write(s) => q.card # NoDoc
        BY InPlace, CatalogConstants DEF TypeInv, Group, Write, Placed
      <3>2. CASE r.card = q.card
        BY <3>1, <3>2
      <3>3. CASE Group(s) /\ r.card = Grouped(q.card)
        BY <3>1, <3>3, GroupedFields
      <3>4. CASE Write(s) /\ r.card = Merged(q)
        BY <3>1, <3>4, TextFields DEF Merged
      <3> QED
        BY <2>1, <3>2, <3>3, <3>4
    <2>5. Agrees(q)
      <3>1. active # NoDoc /\ q.card # NoDoc
        BY <2>3, <2>4, CatalogConstants DEF Keeping
      <3> QED
        BY <2>1, <2>2, <3>1, AloneThen DEF DecisionInv
    <2> QED
      BY <2>3, <2>4, <2>5 DEF Agrees, Keeping
  <1> QED
    BY <1>1, <1>2, <1>3

LEMMA DecisionStep ==
  ASSUME TypeInv, SeenInv, AloneInv, DecisionInv, NEW s \in Slot, Step(s)
  PROVE  DecisionInv'
  <1> SUFFICES ASSUME Calm, active' # NoDoc
               PROVE  /\ Decisions(active') = decided'
                      /\ \A o \in Slot : LET r == request'[o] IN
                            /\ Whole(o)' /\ r.card # NoDoc /\ r.pc \in Held => Agrees(request[o])'
                            /\ r.pc = "reconcile" =>
                                  r.card # NoDoc /\ Decisions(r.card).tools = decided'.tools
    BY DEF DecisionInv, Calm
  <1>1. disturbed \cap {"decisions", "scan"} = {}
    BY Grows DEF Calm
  <1>2. \A o \in Slot \ {s} : request'[o] = request[o]
    BY Own, Arrival
  <1>3. CASE Arrive(s)
    <2>1. active' = active /\ decided' = decided /\ request'[s].pc = "read"
      BY <1>3, Arrival DEF Arrive, docs
    <2>2. request'[s].pc \notin Held /\ request'[s].pc # "reconcile"
      BY <2>1 DEF Held
    <2>3. Decisions(active) = decided
      BY <1>1, <2>1 DEF DecisionInv
    <2>4. ASSUME NEW o \in Slot \ {s}
          PROVE  LET r == request'[o] IN
                 /\ Whole(o)' /\ r.card # NoDoc /\ r.pc \in Held => Agrees(request[o])'
                 /\ r.pc = "reconcile" => r.card # NoDoc /\ Decisions(r.card).tools = decided'.tools
      <3>1. request'[o] = request[o] /\ (Whole(o)' <=> Whole(o))
        BY <1>2 DEF Whole, Running
      <3>2. LET q == request[o] IN
            /\ Whole(o) /\ q.card # NoDoc /\ q.pc \in Held => Agrees(q)
            /\ q.pc = "reconcile" => q.card # NoDoc /\ Decisions(q.card).tools = decided.tools
        BY <1>1, <2>1 DEF DecisionInv
      <3> QED
        BY <2>1, <3>1, <3>2 DEF Agrees
    <2> QED
      BY <2>1, <2>2, <2>3, <2>4
  <1>4. CASE ~Arrive(s)
    <2>1. Decisions(active') = decided'
      BY <1>4, StandStep
    <2>2. request'[s].pc = "reconcile" =>
             request'[s].card # NoDoc /\ Decisions(request'[s].card).tools = decided'.tools
      <3> SUFFICES ASSUME request'[s].pc = "reconcile"
                   PROVE  request'[s].card = active'
        BY <2>1
      <3>1. ReadOverrides(s)
        BY <1>4, HeldBefore, ReadsCard
      <3> QED
        BY <3>1, ReadsCard DEF Running, InFlight, Pc
    <2>3. Whole(s)' /\ request'[s].card # NoDoc /\ request'[s].pc \in Held => Agrees(request[s])'
      BY <1>4, HeldStep
    <2>4. ASSUME NEW o \in Slot \ {s}
          PROVE  ~Whole(o)'
      BY <1>2, <1>4, AloneThen DEF Whole, Running
    <2>5. ASSUME NEW o \in Slot \ {s}, request'[o].pc = "reconcile"
          PROVE  request'[o].card # NoDoc /\ Decisions(request'[o].card).tools = decided'.tools
      <3>1. request'[o] = request[o] /\ Running(o)
        BY <1>2, <2>5 DEF Running, InFlight, Pc
      <3>2. ~WholeCard(request[s].job) /\ request[s].job.op # "tool"
        BY <1>4, <2>5, <3>1, AloneThen
      <3>3. active # NoDoc /\ decided'.tools = decided.tools
        <4>1. ~CreateServer(s) /\ ~Promote(s)
          BY <3>2, InPlace DEF CreateServer, Promote, WholeCard, TypeInv, Placed, OpsAt
        <4>2. CASE Reconcile(s)
          BY <4>2 DEF Reconcile, Landed, NoWrite
        <4>3. CASE Disable(s)
          <5>1. decided \in [enabled : BOOLEAN, tools : [Tool -> Admin \cup {"none"}]]
            BY DEF TypeInv, HistoryOK
          <5> QED
            BY <4>3, <5>1 DEF Disable, Landed, NoWrite
        <4>4. CASE Write(s) /\ request[s].job.op = "toggle"
          <5>1. decided \in [enabled : BOOLEAN, tools : [Tool -> Admin \cup {"none"}]]
            BY DEF TypeInv, HistoryOK
          <5> QED
            BY <4>4, <5>1 DEF Write, Landed, NoWrite, Established
        <4> QED
          BY <1>4, <3>2, <4>1, <4>2, <4>3, <4>4, Keeps DEF Keeping
      <3> QED
        BY <1>1, <2>5, <3>1, <3>3 DEF DecisionInv
    <2> QED
      BY <2>1, <2>2, <2>3, <2>4, <2>5
  <1> QED
    BY <1>3, <1>4

\* Beside any number of patches, toggles, conditional edits and scans:
\* a server is on or off, and its tools are blocked or allowed, as was last decided,
\* as long as nothing overlaps a request that writes a whole card (a tool fetch, the
\* tag of a scan), none of its calls fails, no tool decision falls into a scan, and
\* no tag makes a version the active document.
THEOREM DecisionsHold == Spec => []DecisionsStand
  <1>1. Init => DecisionInv
    <2> SUFFICES ASSUME Init, active # NoDoc
                 PROVE  /\ Decisions(active) = decided
                        /\ \A s \in Slot : ~Whole(s) /\ request[s].pc # "reconcile"
      BY DEF DecisionInv
    <2> QED
      BY DEF Init, Whole, Running, InFlight, Idle
  <1>2. TypeInv /\ SeenInv /\ AloneInv /\ DecisionInv /\ [Next]_vars => DecisionInv'
    <2>1. DecisionInv /\ UNCHANGED vars => DecisionInv'
      BY DEF vars, docs, history, DecisionInv, Whole, Running, Agrees
    <2> QED
      BY <2>1, Steps, DecisionStep
  <1>3. DecisionInv => DecisionsStand
    BY DEF DecisionInv, DecisionsStand
  <1> QED
    BY <1>1, <1>2, <1>3, VersionInvariance, PTL DEF Spec
=============================================================================
