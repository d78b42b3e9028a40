----------------------------- MODULE WebSession -----------------------------
(***************************************************************************)
(* Who is logged in: apps/web/src/context/AuthContext.tsx, lib/api.ts, the *)
(* pages app/page.tsx, app/auth/callback/page.tsx and app/main/page.tsx in *)
(* the tabs of one browser, which share its localStorage, with             *)
(* apps/api/src/auth (auth.service.ts, auth.controller.ts, the strategies).*)
(*                                                                         *)
(* An identity is what an OAuth provider vouches for, and stands for the   *)
(* account that is made of it.  Tokens are numbered as they are issued.  A *)
(* step of a tab includes the effects and redirects it triggers.           *)
(***************************************************************************)
EXTENDS SessionState

vars == <<accounts, issued, valid, stored, tab, touched>>

\* A document that was just loaded.  login: the login that is under way, me and
\* statusCall: the tokens that the two requests carry.
Document(page) ==
  [page |-> page, login |-> Null, token |-> Null, user |-> Null, loading |-> TRUE,
   me |-> Null, status |-> Null, statusLoading |-> TRUE, statusCall |-> Null]

Init ==
  /\ accounts = {} /\ issued = << >> /\ valid = {}
  /\ stored = Null
  /\ tab = [b \in Tab |-> Document("closed")]
  /\ touched = {}

Set(b, doc) == tab' = [tab EXCEPT ![b] = doc]

\* localStorage is written, or its token removed.
Store(b, t) ==
  /\ stored' = t
  /\ touched' = IF t = stored THEN touched ELSE touched \cup (Tab \ {b})

\* MainPage is mounted and asks for the status; authFetch takes the token out of
\* localStorage.
Mount(doc, t) ==
  [doc EXCEPT !.page = "main", !.status = Null, !.statusLoading = TRUE,
              !.statusCall = [token |-> t]]

\* The effects of the two pages.  A call of the main page goes on when the page
\* is left.
LeaveMain(doc) ==
  IF doc.page = "main" /\ ~doc.loading /\ doc.token = Null
  THEN [doc EXCEPT !.page = "home", !.status = Null] ELSE doc
LeaveHome(doc, t) ==
  IF doc.page = "home" /\ ~doc.loading /\ doc.token # Null THEN Mount(doc, t) ELSE doc
Redirect(doc, t) == LeaveHome(LeaveMain(doc), t)

\* AuthProvider reads localStorage, and asks who the token is of.
Loaded(page, t) ==
  IF t = Null THEN Redirect([Document(page) EXCEPT !.loading = FALSE], t)
  ELSE LET doc == [Document(page) EXCEPT !.token = t, !.me = t]
       IN  IF page = "main" THEN Mount(doc, t) ELSE doc

\* The tab is opened or reloaded, at either page.
Load(b, page) ==
  /\ tab[b].page # "provider"
  /\ Set(b, Loaded(page, stored))
  /\ touched' = touched \ {b}
  /\ UNCHANGED <<accounts, issued, valid, stored>>

-----------------------------------------------------------------------------
\* A login leaves the application for the provider, ...
Login(b, i) ==
  /\ tab[b].page = "home" /\ ~tab[b].loading
  /\ Set(b, [Document("provider") EXCEPT !.login = [who |-> i, at |-> "find"]])
  /\ UNCHANGED <<accounts, issued, valid, stored, touched>>

\* ... which calls validateOrCreateUser: findUnique, ...
FindUser(b) ==
  /\ tab[b].login # Null /\ tab[b].login.at = "find"
  /\ Set(b, [tab[b] EXCEPT !.login.at =
               IF tab[b].login.who \in accounts THEN "found" ELSE "create"])
  /\ UNCHANGED <<accounts, issued, valid, stored, touched>>

\* ... and create.  Two unique indexes: the identity and the address.
Unique(i) == i \notin accounts /\ \A j \in accounts : Mail(i) = Null \/ Mail(i) # Mail(j)

CreateUser(b) ==
  /\ tab[b].login # Null /\ tab[b].login.at = "create"
  /\ IF Unique(tab[b].login.who)
     THEN /\ accounts' = accounts \cup {tab[b].login.who}
          /\ Set(b, [tab[b] EXCEPT !.login.at = "found"])
     ELSE Set(b, Document("refused")) /\ UNCHANGED accounts
  /\ UNCHANGED <<issued, valid, stored, touched>>

\* Any other failure, of a query before or after it has run, of the provider or
\* on the way back: the tab ends at an error, whether there is an account or not.
LoginFails(b) ==
  /\ tab[b].login # Null
  /\ Set(b, Document("refused"))
  /\ UNCHANGED <<accounts, issued, valid, stored, touched>>

\* issueToken, ...
IssueToken(i) ==
  /\ Len(issued) < MaxTokens
  /\ issued' = Append(issued, i)
  /\ valid' = valid \cup {Len(issued) + 1}

\* ... setToken, ...
SetToken(b, t) == stored' = t /\ touched' = (touched \cup Tab) \ {b}

\* ... and the callback page, which goes on to "/main".
Callback(b) ==
  /\ tab[b].login # Null /\ tab[b].login.at = "found"
  /\ IssueToken(tab[b].login.who)
  /\ LET t == Len(issued) + 1 IN SetToken(b, t) /\ Set(b, Loaded("main", t))
  /\ UNCHANGED accounts

Expire(t) ==
  /\ valid' = valid \ {t}
  /\ UNCHANGED <<accounts, issued, stored, tab, touched>>

-----------------------------------------------------------------------------
\* The guard of every request
Authorized(t) == t \in valid

Logout(doc) == [doc EXCEPT !.token = Null, !.user = Null, !.me = Null]

\* /users/me answers with the user of the token.
\* Mutant: the request takes the token out of localStorage as the others do.
MeAnswersStored(b) ==
  /\ tab[b].me # Null /\ Authorized(tab[b].me)
  /\ Set(b, Redirect([tab[b] EXCEPT !.me = Null, !.loading = FALSE,
                                    !.user = IF stored = Null THEN Null ELSE issued[stored]], stored))
  /\ UNCHANGED <<accounts, issued, valid, stored, touched>>
MeAnswers(b) ==
  /\ tab[b].me # Null /\ Authorized(tab[b].me)
  /\ Set(b, Redirect([tab[b] EXCEPT !.me = Null, !.loading = FALSE,
                                    !.user = issued[tab[b].me]], stored))
  /\ UNCHANGED <<accounts, issued, valid, stored, touched>>

\* It fails, for whatever reason: the token in localStorage is removed.
MeFails(b) ==
  /\ tab[b].me # Null
  /\ Set(b, Redirect([Logout(tab[b]) EXCEPT !.loading = FALSE], Null))
  /\ Store(b, Null)
  /\ UNCHANGED <<accounts, issued, valid>>

\* getStatus
StatusAnswers(b) ==
  /\ tab[b].statusCall # Null /\ Authorized(tab[b].statusCall.token)
  /\ Set(b, [tab[b] EXCEPT !.statusCall = Null, !.statusLoading = FALSE,
                           !.status = IF tab[b].page = "main"
                                      THEN issued[tab[b].statusCall.token] ELSE Null])
  /\ UNCHANGED <<accounts, issued, valid, stored, touched>>

\* 401: logout.  With the token goes the answer of /users/me, and only that
\* answer would have ended the loading.
StatusUnauthorized(b) ==
  /\ tab[b].statusCall # Null /\ ~Authorized(tab[b].statusCall.token)
  /\ Set(b, Redirect([Logout(tab[b]) EXCEPT !.statusCall = Null, !.statusLoading = FALSE], Null))
  /\ Store(b, Null)
  /\ UNCHANGED <<accounts, issued, valid>>

\* Any other failure: the page goes on without a status.
StatusFails(b) ==
  /\ tab[b].statusCall # Null
  /\ Set(b, [tab[b] EXCEPT !.statusCall = Null, !.statusLoading = FALSE])
  /\ UNCHANGED <<accounts, issued, valid, stored, touched>>

\* onBreakUp asks for the status again.
FetchStatus(b) ==
  /\ tab[b].page = "main" /\ tab[b].statusCall = Null
  /\ tab[b].status # Null /\ tab[b].user # Null
  /\ Set(b, [tab[b] EXCEPT !.statusCall = [token |-> stored]])
  /\ UNCHANGED <<accounts, issued, valid, stored, touched>>

Next ==
  \/ \E b \in Tab :
       \/ \E page \in {"home", "main"} : Load(b, page)
       \/ \E i \in Identity : Login(b, i)
       \/ FindUser(b) \/ CreateUser(b) \/ LoginFails(b) \/ Callback(b)
       \/ MeAnswers(b) \/ MeFails(b)
       \/ StatusAnswers(b) \/ StatusUnauthorized(b) \/ StatusFails(b) \/ FetchStatus(b)
  \/ \E t \in valid : Expire(t)

Spec == Init /\ [][Next]_vars

-----------------------------------------------------------------------------
Token == DOMAIN issued
Page == {"closed", "home", "main", "provider", "refused"}

TypeOK ==
  /\ accounts \subseteq Identity /\ valid \subseteq Token /\ stored \in Token \cup {Null}
  /\ \A t \in Token : issued[t] \in accounts
  /\ \A b \in Tab :
       /\ tab[b].page \in Page /\ tab[b].token \in Token \cup {Null}
       /\ tab[b].user \in Identity \cup {Null} /\ tab[b].status \in Identity \cup {Null}
       /\ tab[b].me # Null => tab[b].me = tab[b].token
       /\ tab[b].page # "main" => tab[b].status = Null

\* The comment of main/page.tsx: without authentication, on to the login page.
UnauthenticatedLeaves == \A b \in Tab : tab[b].page = "main" => tab[b].token # Null

\* A page is loading only while a request is under way -- or for good, on the
\* main page, after a 401 for the status came before the answer of /users/me.
SpinnerEnds ==
  \A b \in Tab :
    /\ tab[b].page \in {"home", "main"} /\ tab[b].loading =>
         \/ tab[b].me # Null
         \/ tab[b].page = "main" /\ tab[b].token = Null
    /\ tab[b].page = "main" /\ tab[b].statusLoading => tab[b].statusCall # Null
=============================================================================
