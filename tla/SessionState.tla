---------------------------- MODULE SessionState ----------------------------
(***************************************************************************)
(* The parameters and the state of WebSession, and what it promises.       *)
(***************************************************************************)
EXTENDS Integers, Sequences

CONSTANTS
  Tab, Identity,
  SharedMail, \* identities for which the providers give the same address, ...
  NoMail,     \* ... and those for which they give none
  MaxTokens,  \* bound on the tokens that are issued
  Null        \* the null of the client

ASSUME SessionAssumption ==
  /\ SharedMail \subseteq Identity /\ NoMail \subseteq Identity \ SharedMail
  /\ MaxTokens \in Nat /\ Null \notin Int /\ Null \notin Identity
  /\ Null \notin [token : Nat \cup {Null}]

Mail(i) == IF i \in SharedMail THEN "shared" ELSE IF i \in NoMail THEN Null ELSE i

VARIABLES
  accounts,  \* the User rows
  issued,    \* issued[t]: whose token t is
  valid,     \* tokens that have not expired
  stored,    \* "auth_token" of localStorage
  tab,       \* tab[b]: the page of the tab and the state of its components
  touched    \* history: tabs under which another has changed localStorage

\* What a tab shows belongs to the account it is logged in to: the user always,
\* and the status and every later request, which take their token from
\* localStorage, unless another tab has changed that since this one was loaded.
SessionIsOwn ==
  \A b \in Tab :
    LET doc == tab[b]
    IN  doc.page \in {"home", "main"} =>
          /\ doc.user # Null => doc.token # Null /\ doc.user = issued[doc.token]
          /\ b \notin touched =>
               /\ stored = doc.token
               /\ doc.token # Null /\ doc.status # Null => doc.status = issued[doc.token]
=============================================================================
