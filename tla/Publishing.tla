------------------------------ MODULE Publishing ------------------------------
(***************************************************************************)
(* An application, its publication and its share link                      *)
(* (applications/application/services.py).  A request reads the row,       *)
(* decides, and writes every column of it back from what it read; another  *)
(* request may have written in between.                                    *)
(***************************************************************************)
EXTENDS Integers

CONSTANTS Owners,        \* requests that may run at the same time
          MaxTokens,     \* links ever made
          NoToken, NoApplication

ASSUME PublishingAssumption ==
  MaxTokens \in Nat /\ NoToken \notin Nat

VARIABLES application,   \* its row, or NoApplication once deleted
          requested,     \* what each request asks for, and the row it read
          made,          \* how many tokens there were
          withdrawn,     \* the tokens that were revoked
          stale          \* has a request written over what it had not read?

publishingVars == <<application, requested, made, withdrawn, stale>>

Tokens == 1..MaxTokens
ApplicationRows ==
  [kind : {"builtin", "composed"}, status : {"draft", "published", "archived"},
   entrypoint : BOOLEAN, dashboards : BOOLEAN, link : BOOLEAN, token : Tokens \cup {NoToken}]

Operations == {"publish", "unpublish", "share", "unshare", "redraft", "archive", "empty",
               "delete"}
NoRequest == [op |-> "none", seen |-> NoApplication]

\* An application is shared exactly while it has a token.
PublishingTypeOK ==
  /\ application \in ApplicationRows \cup {NoApplication}
  /\ application # NoApplication => (application.link <=> application.token # NoToken)
  /\ requested \in [Owners -> {NoRequest} \cup [op : Operations, seen : ApplicationRows]]
  /\ made \in 0..MaxTokens /\ withdrawn \subseteq Tokens /\ stale \in BOOLEAN

\* A new application is a draft nobody has a link to.
PublishingInit ==
  /\ application \in {row \in ApplicationRows :
                        row.status = "draft" /\ ~row.link /\ row.token = NoToken}
  /\ requested = [o \in Owners |-> NoRequest]
  /\ made = 0
  /\ withdrawn = {}
  /\ stale = FALSE

ASSUME NoRowAssumption == NoApplication \notin ApplicationRows

-----------------------------------------------------------------------------
(* What the operations make of the row they read.                          *)

\* Publishing must not make nothing reachable; a built-in one is its own page.
Publishable(row) ==
  IF row.kind = "builtin" THEN row.entrypoint ELSE row.dashboards \/ row.entrypoint

\* Mutated: sharing switches the link on and draws no token for it.
SharedBare(row) == [row EXCEPT !.link = TRUE]

\* Mutated: the link is made from the application's name.
SharedByName(row) == [row EXCEPT !.link = TRUE, !.token = 1]

\* A link already sent goes on working when the button is pressed again.
Shared(row) ==
  [row EXCEPT !.link = TRUE, !.token = IF @ = NoToken THEN made + 1 ELSE @]

\* The old link is dead rather than merely hidden.
Unshared(row) == [row EXCEPT !.link = FALSE, !.token = NoToken]

Allowed(op, row) ==
  CASE op = "publish" -> Publishable(row)
    [] op = "share" -> row.status = "published"
    [] op = "delete" -> row.kind # "builtin"
    [] OTHER -> TRUE

\* An edit sets a status without publishing or withdrawing anything, and can
\* take the dashboards out of an application.
Changed(op, row) ==
  CASE op = "publish" -> [row EXCEPT !.status = "published"]
    [] op = "unpublish" -> [Unshared(row) EXCEPT !.status = "draft"]
    [] op = "share" -> Shared(row)
    [] op = "unshare" -> Unshared(row)
    [] op = "redraft" -> [row EXCEPT !.status = "draft"]
    [] op = "archive" -> [row EXCEPT !.status = "archived"]
    [] op = "empty" -> [row EXCEPT !.dashboards = FALSE]

\* The application a link opens: one that is shared by it and published.
Opens(token) ==
  /\ application # NoApplication
  /\ application.token = token /\ application.link
  /\ application.status = "published"

-----------------------------------------------------------------------------
(* Requests.                                                               *)

Ask(o, op) ==
  /\ requested[o] = NoRequest
  /\ application # NoApplication /\ Allowed(op, application)
  /\ requested' = [requested EXCEPT ![o] = [op |-> op, seen |-> application]]
  /\ UNCHANGED <<application, made, withdrawn, stale>>

Answered(o) == requested' = [requested EXCEPT ![o] = NoRequest]

\* A row deleted meanwhile takes no write.
WriteApplication(o) ==
  /\ requested[o] # NoRequest /\ requested[o].op # "delete"
  /\ LET op == requested[o].op
         row == Changed(op, requested[o].seen)
     IN /\ row.token \in Tokens \cup {NoToken}
        /\ application' = IF application = NoApplication THEN NoApplication ELSE row
        /\ made' = IF row.token = made + 1 THEN made + 1 ELSE made
        /\ withdrawn' = IF application # NoApplication /\ op \in {"unpublish", "unshare"}
                        THEN withdrawn \cup ({requested[o].seen.token} \ {NoToken})
                        ELSE withdrawn
  /\ stale' = (stale \/ application # requested[o].seen)
  /\ Answered(o)

DeleteApplication(o) ==
  /\ requested[o].op = "delete"
  /\ application' = NoApplication
  /\ Answered(o)
  /\ UNCHANGED <<made, withdrawn, stale>>

PublishingNext ==
  \E o \in Owners : \/ \E op \in Operations : Ask(o, op)
                    \/ WriteApplication(o) \/ DeleteApplication(o)

PublishingSpec == PublishingInit /\ [][PublishingNext]_publishingVars

-----------------------------------------------------------------------------
\* A revoked link stays dead, through publishing and sharing again, unless a
\* request that had read the application before wrote it back after the
\* revocation.
RevokedStaysDead == stale \/ \A t \in withdrawn : ~Opens(t)
=============================================================================
