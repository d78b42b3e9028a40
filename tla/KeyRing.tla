------------------------------ MODULE KeyRing ------------------------------
(***************************************************************************)
(* The keys of the chat, apps/api/src/chat/chat-encryption.service.ts: the *)
(* process reads them from its environment when it starts, encrypts new    *)
(* messages with the active version, and decrypts an old one with the      *)
(* version stored beside it.  In between an operator edits the environment *)
(* and restarts the process.                                               *)
(*                                                                         *)
(* AES-GCM is taken to be perfect: a message opens with the key that sealed*)
(* it and with no other.                                                   *)
(***************************************************************************)
EXTENDS KeyRingState

vars == <<list, legacy, chosen, up, ring, active, db, failed, lost>>

\* The constructor.  Without a usable version in the environment it is 1.
ActiveVersion == IF chosen = Unset THEN 1 ELSE chosen

\* Keys come from the list if there is one, else the one legacy key is taken
\* for the active version, whichever that is.
Ring ==
  IF list # Unset THEN list
  ELSE [v \in Version |-> IF v = ActiveVersion THEN legacy ELSE Unset]

\* decodeKey: 32 bytes, or it throws.
Decodes(entry) == entry # Malformed

\* The constructor throws also if there is no key, or none for that version.
Startable ==
  /\ \A v \in Version : Decodes(Ring[v])
  /\ Ring[ActiveVersion] # Unset

Init ==
  /\ list \in {Unset} \cup [Version -> Entry]
  /\ legacy \in Entry
  /\ chosen \in Version \cup {Unset}
  /\ up = FALSE /\ ring = [v \in Version |-> Unset] /\ active = 1
  /\ db = << >> /\ failed = FALSE
  /\ lost = {}

\* What an edit takes away: versions whose key a process that starts now would
\* not have, although one that started before the edit would.
TakenAway == {v \in Version : Ring[v] # Unset /\ Ring'[v] # Ring[v]}

\* An operator edits one of the variables.  The process does not notice.
Edit ==
  /\ \/ \E v \in Version, e \in Entry :
          /\ list # Unset
          /\ list' = [list EXCEPT ![v] = e]
          /\ UNCHANGED <<legacy, chosen>>
     \/ /\ list' \in {Unset} \cup {[w \in Version |-> IF w = v THEN k ELSE Unset] :
                                    v \in Version, k \in Key}
        /\ UNCHANGED <<legacy, chosen>>
     \/ legacy' \in Entry /\ UNCHANGED <<list, chosen>>
     \/ chosen' \in Version \cup {Unset} /\ UNCHANGED <<list, legacy>>
  /\ lost' = lost \cup TakenAway
  /\ UNCHANGED <<up, ring, active, db, failed>>

Start ==
  /\ ~up /\ Startable
  /\ up' = TRUE
  /\ ring' = Ring
  /\ active' = ActiveVersion
  /\ UNCHANGED <<list, legacy, chosen, db, failed, lost>>

\* The process stops or crashes; its clients forget what they were answered.
Stop ==
  /\ up
  /\ up' = FALSE /\ failed' = FALSE
  /\ UNCHANGED <<list, legacy, chosen, ring, active, db, lost>>

\* createMessage: encrypt with the active version, and store.
\* Mutant: the version is not stored with the message, 1 is.
CreateUnversioned ==
  /\ up /\ Len(db) < MaxMessages
  /\ db' = Append(db, [version |-> 1, key |-> ring[active]])
  /\ UNCHANGED <<list, legacy, chosen, up, ring, active, failed, lost>>
Create ==
  /\ up /\ Len(db) < MaxMessages
  /\ db' = Append(db, [version |-> active, key |-> ring[active]])
  /\ UNCHANGED <<list, legacy, chosen, up, ring, active, failed, lost>>

\* decrypt and getKey
Opens(m) == ring[m.version] = m.key

\* fetchMessages, of the messages from i to j: one that does not open makes the
\* whole page fail.
Fetch(i, j) ==
  /\ up
  /\ failed' = \E k \in i .. j : ~Opens(db[k])
  /\ UNCHANGED <<list, legacy, chosen, up, ring, active, db, lost>>

Next ==
  \/ Edit \/ Start \/ Stop \/ Create
  \/ \E i, j \in DOMAIN db : Fetch(i, j)

Spec == Init /\ [][Next]_vars

-----------------------------------------------------------------------------
TypeOK ==
  /\ list \in {Unset} \cup [Version -> Entry]
  /\ legacy \in Entry /\ chosen \in Version \cup {Unset}
  /\ up \in BOOLEAN /\ failed \in BOOLEAN
  /\ ring \in [Version -> Entry] /\ active \in Version
  /\ db \in Seq([version : Version, key : Entry])
  /\ lost \subseteq Version

\* What is stored was sealed with a key: encrypt never runs without one.
SealedWithAKey == \A i \in DOMAIN db : db[i].key \in Key
=============================================================================
