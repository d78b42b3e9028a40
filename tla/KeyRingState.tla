---------------------------- MODULE KeyRingState ----------------------------
(***************************************************************************)
(* The parameters and the state of KeyRing, and what it promises.          *)
(***************************************************************************)
EXTENDS Integers, Sequences

CONSTANTS
  Versions,     \* the highest key version
  Key,          \* keys of 32 bytes
  Malformed,    \* a key that is not
  MaxMessages,  \* bound on the messages
  Unset         \* no value: no key, no list, no number

ASSUME KeyRingAssumption ==
  /\ Versions \in Nat \ {0} /\ MaxMessages \in Nat
  /\ Unset \notin Key /\ Malformed \notin Key /\ Malformed # Unset

Version == 1 .. Versions
Entry == Key \cup {Malformed, Unset}

VARIABLES
  list,    \* CHAT_ENCRYPTION_KEYS: an entry per version; Unset: not set
  legacy,  \* CHAT_ENCRYPTION_KEY, or Unset
  chosen,  \* CHAT_ENCRYPTION_KEY_VERSION, or Unset when it is no number
  up,      \* the process runs
  ring,    \* the keys of the process
  active,  \* activeVersion of the process
  db,      \* the ChatMessage rows: the version and the key they were sealed with
  failed,  \* the last fetchMessages was answered with an error
  lost     \* history: versions whose key has at some time been taken away

\* A page fails only if it has a message of a version whose key an edit has
\* taken away at some time (removed or replaced it, put a list without it in
\* place of the legacy key, or moved the legacy key to another version).  In
\* particular adding keys and switching between them never makes a message
\* unreadable, and neither do messages that a process still sealed with a key
\* that the environment already lacked.
PageFailsForLostKeyOnly ==
  failed => \E i \in DOMAIN db : db[i].version \in lost
=============================================================================
