------------------------------ MODULE Accounts ------------------------------
(***************************************************************************)
(* Accounts, API keys and workspace membership, and the requests made with *)
(* them.  A request resolves its caller and reads the row it is about when *)
(* it begins (one session, READ COMMITTED); when it finishes, its          *)
(* repository reads the row again and writes the columns its own copy      *)
(* differs in, so what was committed in between is overwritten.  Requests  *)
(* that touch none of these rows are served in one step.                   *)
(***************************************************************************)
EXTENDS Routes, FiniteSets, Integers, Bags, BagsExt

CONSTANTS People,      \* accounts, by id; an id is never used again
          Keys,
          MaxRequests, \* requests at a time (bound)
          WritingKeys, \* keys issued with can_write
          Candidates,  \* who may be added to the workspace
          Nobody       \* a caller without credentials

ASSUME AccountsAssumption ==
  /\ WritingKeys \subseteq Keys /\ Candidates \subseteq People
  /\ Nobody \notin People \cup Keys /\ People \cap Keys = {}

VARIABLES account,    \* users: a row, or none
          key,        \* api_keys: the state of each
          members,    \* who belongs to the workspace that is not the default
          asking,     \* the requests under way, a bag
          overreached \* handlers that served someone beyond their rights

accountVars == <<account, key, members, asking, overreached>>

Rows == [role : Role, is_active : BOOLEAN]
Absent == [role |-> "absent", is_active |-> FALSE]
Deleted == [role |-> "deleted", is_active |-> FALSE]
NoRow == {Absent, Deleted}
KeyStates == {"unissued", "live", "revoked", "deleted"}
Places == {"default", "other"}

Exists(p) == account[p] \notin NoRow
Admins == {p \in People : Exists(p) /\ account[p].role = "admin"}
ActiveAdmins == {p \in Admins : account[p].is_active}

-----------------------------------------------------------------------------
(* Who is asking, and may they.                                            *)

\* Mutated: a revoked key still resolves.
UsableUnlessDeleted(k) == key[k] \in {"live", "revoked"}

Usable(k) == key[k] = "live"

\* current_user: a person by token, unless the account is gone or disabled; a
\* key as a user of its own.
Known(c) == IF c \in Keys THEN Usable(c) ELSE c \in People /\ Exists(c) /\ account[c].is_active

KeyRole(k) == IF k \in WritingKeys THEN "editor" ELSE "viewer"
RoleOf(c) == IF c \in Keys THEN KeyRole(c) ELSE account[c].role

May(c, r) == IF Known(c) THEN r.needs \subseteq ROLE_PERMISSIONS[RoleOf(c)]
                         ELSE ~r.signedIn

\* resolve_scope: a key acts in the workspace it was issued for (the default
\* one here), whatever it names; a person who names one has to be in it.
Scope(c, named) ==
  IF c \in Keys /\ Usable(c) THEN {"default"}
  ELSE IF named = "other" /\ Known(c)
       THEN IF RoleOf(c) = "admin" \/ c \in members THEN {"other"} ELSE {}
       ELSE {named}

-----------------------------------------------------------------------------
(* What a caller is entitled to, by the rows themselves.                   *)

Writer(role) == role \in {"admin", "editor"}
Person(c) == c \in People /\ Exists(c) /\ account[c].is_active

Entitled(c) ==
  {"nothing", "own"}
  \cup (IF Person(c) \/ (c \in Keys /\ key[c] = "live") THEN {"note"} ELSE {})
  \cup (IF (Person(c) /\ Writer(account[c].role)) \/ (c \in WritingKeys /\ key[c] = "live")
        THEN {"work"} ELSE {})
  \cup (IF Person(c) /\ account[c].role = "admin" THEN {"platform", "connection"} ELSE {})

\* A guarded request in the other workspace is for its members.
Belongs(c, r, place) ==
  (place = "other" /\ r.signedIn) => Person(c) /\ (account[c].role = "admin" \/ c \in members)

Beyond(c, r, place) ==
  IF /\ r.stores \in Entitled(c) /\ Belongs(c, r, place)
     /\ r.signedIn => Person(c) \/ (c \in Keys /\ key[c] = "live")
  THEN {} ELSE {r.handler}

-----------------------------------------------------------------------------
(* Requests.                                                               *)

Callers == People \cup Keys \cup {Nobody}
RowHandlers == {"login", "change_password", "update_user", "delete_user", "create_user",
                "add_member", "remove_member", "issue_api_key", "revoke_api_key",
                "delete_api_key"}

\* c asks for route r in the workspace it names.
Granted(c, r) ==
  /\ May(c, r)
  /\ \E named \in Places : \E place \in Scope(c, named) :
       overreached' = overreached \cup Beyond(c, r, place)

Asked(c, h) == Granted(c, RouteOf[h])

\* Any other handler: it reads the rows only, so it is enough to look at it
\* while no request is under way (any may fail).
Serve(c) ==
  /\ asking = EmptyBag
  /\ \E r \in ApiRoutes : r.handler \notin RowHandlers /\ Granted(c, r)
  /\ UNCHANGED <<account, key, members, asking>>

Begins(request) == BagCardinality(asking) < MaxRequests /\ asking' = BagAdd(asking, request)

BeginRequest(c, h, request) ==
  /\ Begins(request) /\ Asked(c, h)
  /\ UNCHANGED <<account, key, members>>

\* A row as the request means it to be; `admins` are those there were.
Update(p, row) == [op |-> "update", of |-> p, row |-> row, admins |-> ActiveAdmins]

\* authenticate
Login(p) ==
  /\ Exists(p) /\ account[p].is_active
  /\ BeginRequest(Nobody, "login", Update(p, account[p]))

ChangePassword(p) ==
  p \in People /\ Known(p) /\ BeginRequest(p, "change_password", Update(p, account[p]))

UpdateUser(c, p) ==
  /\ Exists(p)
  /\ \E row \in Rows : row # account[p] /\ BeginRequest(c, "update_user",
       [op |-> "patch", of |-> p, row |-> row, admins |-> ActiveAdmins])

\* Mutated: your own account too.
AnyAccount(c, p) == TRUE

OtherAccount(c, p) == c # p

\* _admin_count counts disabled administrators as well.
AdminCount == Cardinality(Admins)

DeleteUser(c, p) ==
  /\ Exists(p) /\ OtherAccount(c, p)
  /\ ~(account[p].role = "admin" /\ AdminCount <= 1)
  /\ BeginRequest(c, "delete_user", [op |-> "delete", of |-> p, admins |-> ActiveAdmins])

CreateUser(c, p) ==
  /\ account[p] = Absent /\ Asked(c, "create_user")
  /\ \E role \in Role : account' = [account EXCEPT ![p] = [role |-> role, is_active |-> TRUE]]
  /\ UNCHANGED <<key, members, asking>>

\* ensure_bootstrap_admin, when a server starts on no accounts.
Bootstrap(p) ==
  /\ \A x \in People : ~Exists(x)
  /\ account[p] = Absent
  /\ account' = [account EXCEPT ![p] = [role |-> "admin", is_active |-> TRUE]]
  /\ UNCHANGED <<key, members, asking, overreached>>

AddMember(c, p) ==
  /\ p \in Candidates \ members /\ Exists(p) /\ Asked(c, "add_member")
  /\ members' = members \cup {p}
  /\ UNCHANGED <<account, key, asking>>

RemoveMember(c, p) ==
  /\ Asked(c, "remove_member")
  /\ members' = members \ {p}
  /\ UNCHANGED <<account, key, asking>>

Issue(c, k) ==
  /\ key[k] = "unissued" /\ Asked(c, "issue_api_key")
  /\ key' = [key EXCEPT ![k] = "live"]
  /\ UNCHANGED <<account, members, asking>>

\* A request with a key writes the key's last use, whatever it is for.
UseKey(k) ==
  /\ Usable(k) /\ Begins([op |-> "key", of |-> k, to |-> key[k]])
  /\ UNCHANGED <<account, key, members, overreached>>

RevokeKey(c, k) ==
  /\ key[k] \in {"live", "revoked"}
  /\ BeginRequest(c, "revoke_api_key", [op |-> "key", of |-> k, to |-> "revoked"])

DeleteKey(c, k) ==
  /\ key[k] \in {"live", "revoked"} /\ Asked(c, "delete_api_key")
  /\ key' = [key EXCEPT ![k] = "deleted"]
  /\ UNCHANGED <<account, members, asking>>

\* SqlUserRepository.update and delete: of a row deleted meanwhile, nothing.
FinishAccount(request) ==
  /\ request.op \in {"update", "patch", "delete"}
  /\ account' = [account EXCEPT ![request.of] =
                   IF @ \in NoRow THEN @
                   ELSE IF request.op = "delete" THEN Deleted ELSE request.row]
  /\ asking' = BagRemove(asking, request)
  /\ UNCHANGED <<key, members, overreached>>

\* SqlApiKeyRepository.update: a row deleted meanwhile is added again.
FinishKey(request) ==
  /\ request.op = "key"
  /\ key' = [key EXCEPT ![request.of] = request.to]
  /\ asking' = BagRemove(asking, request)
  /\ UNCHANGED <<account, members, overreached>>

\* Rolled back: get_session.
Fail(request) ==
  /\ asking' = BagRemove(asking, request)
  /\ UNCHANGED <<account, key, members, overreached>>

AccountInit ==
  /\ account = [p \in People |-> Absent]
  /\ key = [k \in Keys |-> "unissued"]
  /\ members = {}
  /\ asking = EmptyBag
  /\ overreached = {}

RequestNext ==
  \/ \E p \in People : Login(p) \/ ChangePassword(p)
  \/ \E c \in People, p \in People : UpdateUser(c, p) \/ DeleteUser(c, p)
  \/ \E k \in Keys : UseKey(k) \/ \E c \in People : RevokeKey(c, k)
  \/ \E request \in BagToSet(asking) :
       FinishAccount(request) \/ FinishKey(request) \/ Fail(request)

AccountNext ==
  \/ \E p \in People : Bootstrap(p)
  \/ \E c \in Callers : Serve(c)
  \/ \E c \in People, p \in People : CreateUser(c, p) \/ AddMember(c, p) \/ RemoveMember(c, p)
  \/ \E c \in People, k \in Keys : Issue(c, k) \/ DeleteKey(c, k)
  \/ RequestNext

AccountSpec == AccountInit /\ [][AccountNext]_accountVars

-----------------------------------------------------------------------------
(* Properties.                                                             *)

AccountTypeOK ==
  /\ account \in [People -> NoRow \cup Rows] /\ key \in [Keys -> KeyStates]
  /\ members \subseteq Candidates
  /\ BagCardinality(asking) <= MaxRequests
  /\ \A request \in BagToSet(asking) : request.of \in People \cup Keys

\* Whatever overlaps, a request is only ever served to someone whose row, when
\* it began, allowed what its handler stores: readers and read-only keys store
\* nothing but traces of their reading, editors no accounts, keys, workspaces,
\* projects or connections, and nobody works in a workspace they are not in.
NoOverreach == overreached = {}

\* The last administrator who can sign in goes only by an update of theirs, or
\* by a request that began when others could ("the last administrator cannot be
\* removed"): the count a deletion is refused by takes in disabled accounts, and
\* it is the deleting administrator who remains.
LastAdminLeaves ==
  [][ \A asked \in BagToSet(asking) :
        (asking' = BagRemove(asking, asked) /\ ActiveAdmins # {} /\ ActiveAdmins' = {}) =>
          \/ asked.op = "patch"
          \/ asked.admins # ActiveAdmins ]_accountVars
=============================================================================
