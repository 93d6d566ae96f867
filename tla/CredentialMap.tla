---------------------------- MODULE CredentialMap ---------------------------
(***************************************************************************)
(* What a secret store promises for one principal's credentials: a map     *)
(* that a successful write changes once, in one entry, and of which a read *)
(* sees the asked entries as they were together at one moment of the call. *)
(* A write that fails may have been applied.                               *)
(*                                                                         *)
(*   registry/secrets/interfaces.py: SecretStoreBase                       *)
(***************************************************************************)
CONSTANTS
    Key,        \* the entries a principal may have
    Write,      \* the calls of put_token and delete_token
    Read,       \* the calls of get_token and list_for_user
    KeyOf,      \* [Write -> Key]
    ValueOf,    \* [Write -> the token put, or what stands for no entry]
    Unseen      \* a read has not looked yet

VARIABLES
    map,        \* [Key -> token]
    write,      \* [Write -> {"open", "applied", "ok", "failed"}]
    read        \* [Read -> the keys asked for, what was seen, and where it stands]

vars == <<map, write, read>>

Seen(r) == [k \in read[r].keys |-> map[k]]

Apply(w) ==
    /\ write[w] = "open"
    /\ map' = [map EXCEPT ![KeyOf[w]] = ValueOf[w]]
    /\ \E outcome \in {"applied", "failed"} : write' = [write EXCEPT ![w] = outcome]

\* Some calls end: a write that was applied succeeds, any call may fail.
End ==
    /\ UNCHANGED map
    /\ \A w \in Write : \/ write'[w] = write[w]
                        \/ write[w] = "applied" /\ write'[w] = "ok"
                        \/ write[w] \in {"open", "applied"} /\ write'[w] = "failed"
    /\ \A r \in Read : \/ read'[r] = read[r]
                       \/ /\ read[r].pc = "open"
                          /\ read'[r].pc = "failed" /\ read'[r].keys = read[r].keys

Look(r) ==
    /\ read[r].pc = "open"
    /\ read' = [read EXCEPT ![r].seen = Seen(r)]
    /\ UNCHANGED <<map, write>>

\* Reads overtaken by a change look again.
Forget ==
    /\ \A r \in Read : \/ read'[r] = read[r]
                       \/ /\ read[r].pc = "open"
                          /\ read'[r] = [read[r] EXCEPT !.seen = Unseen]
    /\ UNCHANGED <<map, write>>

Answer(r) ==
    /\ read[r].pc = "open"
    /\ read[r].seen # Unseen
    /\ read' = [read EXCEPT ![r].pc = "answered"]
    /\ UNCHANGED <<map, write>>

Init ==
    /\ write = [w \in Write |-> "open"]
    /\ \A r \in Read : read[r].pc = "open" /\ read[r].seen = Unseen

Next ==
    \/ \E w \in Write : Apply(w) /\ UNCHANGED read
    \/ \E r \in Read : Look(r) \/ Answer(r)
    \/ End
    \/ Forget

MapSpec == Init /\ [][Next]_vars
=============================================================================
