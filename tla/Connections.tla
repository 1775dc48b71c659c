------------------------------- MODULE Connections ------------------------------
(***************************************************************************)
(* The life of a connection to an external database: Create, Update,       *)
(* Delete, Connect and Disconnect of internal/connections/service.go, over *)
(* the connections table, the Keychain, the table of runtime states and    *)
(* the DuckDB session of internal/federation that holds the attached       *)
(* catalogs and the temporary secrets.                                     *)
(*                                                                         *)
(* One project acts; linked are its connections.  A configuration is a     *)
(* number, 0 for no row; a password is the number of the configuration it  *)
(* was given with, 0 for none.  Update, Delete, Connect and Disconnect     *)
(* hold the mutex lifecycle from their first step to their last; Create    *)
(* does not, nor do the checks a call makes before it asks for the mutex.  *)
(* A step is one access to the database, to the Keychain, to the runtime   *)
(* states or one turn of the session.  A name of a secret is a fact of its *)
(* connection, so secrets are named by connections.  The relation cache,   *)
(* snapshots and TestConnection are left out.                              *)
(***************************************************************************)
EXTENDS Naturals

CONSTANTS Connection,
          MaxConfig,    \* bound: configurations a connection is saved with
          MaxFailures,  \* bound: Keychain, table and DETACH operations that fail
          MaxRestarts   \* bound: times the application ends and starts again

ASSUME ConnectionsAssumption == /\ Connection # {}
                                /\ MaxConfig \in Nat \ {0}
                                /\ MaxFailures \in Nat /\ MaxRestarts \in Nat

VARIABLES
  row,         \* row[c]: configuration in the connections table, or 0
  linked,      \* connections linked to the project
  keychain,    \* keychain[c]: the password stored, or 0
  given,       \* given[c]: the password the user saved the row with, or 0
  runtime,     \* runtime[c]: status, and whether the secret's name is known
  attached,    \* connections the session marks as attached
  catalog,     \* catalog[c]: configuration its catalog was attached with, or 0
  secrets,     \* connections with a temporary secret in DuckDB
  create,      \* create[c]: where the call of CreateConnection is
  asked,       \* calls that passed their checks and wait for lifecycle
  op,          \* the call that holds lifecycle, or Free
  overwritten, \* connections whose state Create replaced while they were in use
  astray,      \* connections whose Keychain item could not be put right
  failures, restarts

db == <<row, linked, given>>
duck == <<attached, catalog, secrets>>
ghosts == <<overwritten, astray>>
vars == <<db, keychain, runtime, duck, create, asked, op, ghosts, failures, restarts>>

-------------------------------------------------------------------------------
Status == {"disconnected", "connecting", "connected", "error"}
Kind == {"connect", "disconnect", "update", "delete"}
Down == [status |-> "disconnected", secret |-> FALSE]
Failed == [status |-> "error", secret |-> FALSE]
Free == [kind |-> "none", conn |-> CHOOSE c \in Connection : TRUE, pc |-> "free",
         previous |-> 0, wrote |-> FALSE, secret |-> FALSE]

Holding(kind, pc) == op.kind = kind /\ op.pc = pc
GoTo(pc) == op' = [op EXCEPT !.pc = pc]
Release == op' = Free

Works == UNCHANGED failures
Fails == failures < MaxFailures /\ failures' = failures + 1

SetRuntime(c, state) == runtime' = [runtime EXCEPT ![c] = state]

Init == /\ row = [c \in Connection |-> 0]
        /\ linked = {}
        /\ keychain = [c \in Connection |-> 0]
        /\ given = [c \in Connection |-> 0]
        /\ runtime = [c \in Connection |-> Down]
        /\ attached = {}
        /\ catalog = [c \in Connection |-> 0]
        /\ secrets = {}
        /\ create = [c \in Connection |-> "none"]
        /\ asked = {}
        /\ op = Free
        /\ overwritten = {}
        /\ astray = {}
        /\ failures = 0
        /\ restarts = 0

-------------------------------------------------------------------------------
(* CreateConnection: the password first, then the row, then the state.     *)

CreateSecret(c) ==
  /\ create[c] = "none"
  /\ \/ /\ Works
        /\ create' = [create EXCEPT ![c] = "stored"]
        /\ \E pw \in {0, 1} : keychain' = [keychain EXCEPT ![c] = pw]
        /\ UNCHANGED astray
     \/ /\ Fails
        /\ create' = [create EXCEPT ![c] = "failed"]
        /\ \E pw \in {0, 1} : keychain' = [keychain EXCEPT ![c] = pw]
        /\ astray' = astray \union {c}
  /\ UNCHANGED <<db, runtime, duck, asked, op, overwritten, restarts>>

CreateRow(c) ==
  /\ create[c] = "stored"
  /\ Works
  /\ row' = [row EXCEPT ![c] = 1]
  /\ given' = [given EXCEPT ![c] = keychain[c]]
  /\ linked' = linked \union {c}
  /\ create' = [create EXCEPT ![c] = "saved"]
  /\ UNCHANGED <<keychain, runtime, duck, asked, op, ghosts, restarts>>

\* The row is refused or the write fails; the password is taken back, if it
\* can be.
CreateRowFails(c) ==
  /\ create[c] = "stored"
  /\ create' = [create EXCEPT ![c] = "failed"]
  /\ \/ Works /\ keychain' = [keychain EXCEPT ![c] = 0] /\ UNCHANGED astray
     \/ /\ keychain[c] # 0
        /\ Fails
        /\ astray' = astray \union {c}
        /\ UNCHANGED keychain
  /\ UNCHANGED <<db, runtime, duck, asked, op, overwritten, restarts>>

\* Whatever happened to the connection since its row was committed.
CreateState(c) ==
  /\ create[c] = "saved"
  /\ create' = [create EXCEPT ![c] = "done"]
  /\ SetRuntime(c, Down)
  /\ overwritten' = IF runtime[c] = Down THEN overwritten ELSE overwritten \union {c}
  /\ UNCHANGED <<db, keychain, duck, asked, op, astray, failures, restarts>>

-------------------------------------------------------------------------------
(* Who waits for lifecycle.  Connect, by the user or by a job of           *)
(* scheduleAutoConnect, and Disconnect look at the project's links first.  *)

Ask(kind, c) ==
  /\ kind \in {"connect", "disconnect"}
  /\ c \in linked
  /\ asked' = asked \union {<<kind, c>>}
  /\ asked' # asked
  /\ UNCHANGED <<db, keychain, runtime, duck, create, op, ghosts, failures, restarts>>

\* The mutex is free; Update and Delete come straight to it.
Take(kind, c) == /\ op = Free
                 /\ kind \in {"connect", "disconnect"} => <<kind, c>> \in asked
                 /\ asked' = asked \ {<<kind, c>>}

\* The row is gone, or there is nothing to do.
InUse(c) == runtime[c].status # "disconnected" \/ c \in attached

ReturnsAtOnce(kind, c) ==
  /\ <<kind, c>> \in asked
  /\ Take(kind, c)
  /\ \/ row[c] = 0
     \/ kind = "connect" /\ runtime[c].status = "connected"
     \/ kind = "disconnect" /\ ~InUse(c)
  /\ UNCHANGED <<db, keychain, runtime, duck, create, op, ghosts, failures, restarts>>

Begin(kind, c, pc) ==
  /\ Take(kind, c)
  /\ row[c] # 0
  /\ op' = [Free EXCEPT !.kind = kind, !.conn = c, !.pc = pc,
                        !.secret = runtime[c].secret]
  /\ UNCHANGED <<db, keychain, duck, create, ghosts, failures, restarts>>

\* Connect shows that it is at work.
BeginConnect(c) == /\ Begin("connect", c, "password")
                   /\ runtime[c].status # "connected"
                   /\ SetRuntime(c, [status |-> "connecting", secret |-> FALSE])

BeginDisconnect(c) == /\ Begin("disconnect", c, "detach")
                      /\ InUse(c)
                      /\ UNCHANGED runtime

\* UpdateConnection disconnects what is connected or still attached.
StatusConnected(c) == runtime[c].status = "connected"                    \* mutant
MustDetach(c) == runtime[c].status = "connected" \/ c \in attached

BeginUpdate(c) == /\ \/ MustDetach(c) /\ Begin("update", c, "detach")
                     \/ ~MustDetach(c) /\ Begin("update", c, "store")
                  /\ UNCHANGED runtime

BeginDelete(c) == /\ \/ InUse(c) /\ Begin("delete", c, "detach")
                     \/ ~InUse(c) /\ Begin("delete", c, "look")
                  /\ UNCHANGED runtime

-------------------------------------------------------------------------------
(* Connect, with lifecycle held.                                           *)

KeepsConnecting == /\ Release                                            \* mutant
                   /\ UNCHANGED runtime

FailConnection == /\ Release
                  /\ SetRuntime(op.conn, Failed)

\* optionalSecret: the Keychain may refuse.
ReadPassword == /\ Holding("connect", "password")
                /\ \/ Works /\ GoTo("attach") /\ UNCHANGED runtime
                   \/ Fails /\ FailConnection
                /\ UNCHANGED <<db, keychain, duck, create, asked, ghosts, restarts>>

\* One turn of the session: what is attached stays, else the secret is made
\* and the catalog attached; a provider may have no secret (MongoDB).
Attach == /\ Holding("connect", "attach")
          /\ \/ /\ op.conn \in attached
                /\ op' = [op EXCEPT !.pc = "connected", !.secret = FALSE]
                /\ UNCHANGED duck
             \/ /\ op.conn \notin attached
                /\ attached' = attached \union {op.conn}
                /\ catalog' = [catalog EXCEPT ![op.conn] = row[op.conn]]
                /\ \E named \in BOOLEAN :
                     /\ secrets' = IF named THEN secrets \union {op.conn} ELSE secrets
                     /\ op' = [op EXCEPT !.pc = "connected", !.secret = named]
          /\ UNCHANGED <<db, keychain, runtime, create, asked, ghosts, failures, restarts>>

\* The extension, the secret, ATTACH or the health check fails, or the call
\* is cancelled: catalog and secret are removed again, unless neither was
\* made.
AttachFails == /\ Holding("connect", "attach")
               /\ op.conn \notin attached
               /\ secrets' \in {secrets, secrets \ {op.conn}}
               /\ FailConnection
               /\ UNCHANGED <<db, keychain, attached, catalog, create, asked, ghosts,
                              failures, restarts>>

Connected == /\ Holding("connect", "connected")
             /\ SetRuntime(op.conn, [status |-> "connected", secret |-> op.secret])
             /\ Release
             /\ UNCHANGED <<db, keychain, duck, create, asked, ghosts, failures, restarts>>

-------------------------------------------------------------------------------
(* disconnectLocked, for Disconnect, Update and Delete.  The secret is     *)
(* dropped by the name the runtime state held, and in any case.            *)

DropSecret == secrets' = IF op.secret THEN secrets \ {op.conn} ELSE secrets

Detach == /\ op.pc = "detach"
          /\ GoTo("detached")
          /\ \/ op.conn \notin attached /\ UNCHANGED duck
             \/ /\ op.conn \in attached
                /\ attached' = attached \ {op.conn}
                /\ catalog' = [catalog EXCEPT ![op.conn] = 0]
                /\ DropSecret
          /\ UNCHANGED <<db, keychain, runtime, create, asked, ghosts, failures, restarts>>

DetachFails == /\ op.pc = "detach"
               /\ op.conn \in attached
               /\ Fails
               /\ DropSecret
               /\ FailConnection
               /\ UNCHANGED <<db, keychain, attached, catalog, create, asked, ghosts,
                              restarts>>

Detached == /\ op.pc = "detached"
            /\ SetRuntime(op.conn, Down)
            /\ \/ op.kind = "disconnect" /\ Release
               \/ op.kind = "update" /\ GoTo("store")
               \/ op.kind = "delete" /\ GoTo("look")
            /\ UNCHANGED <<db, keychain, duck, create, asked, ghosts, failures, restarts>>

-------------------------------------------------------------------------------
(* UpdateConnection: the password first, then the row; what was stored is  *)
(* put back when the row cannot be written.                                *)

UpdateRefused == /\ Holding("update", "store")
                 /\ Release
                 /\ UNCHANGED <<db, keychain, runtime, duck, create, asked, ghosts, failures,
                                restarts>>

\* An empty password keeps the one stored.
KeepPassword == /\ Holding("update", "store")
                /\ row[op.conn] < MaxConfig
                /\ GoTo("write")
                /\ UNCHANGED <<db, keychain, runtime, duck, create, asked, ghosts, failures,
                               restarts>>

\* An item of another build cannot be read and is not put back later.
StorePassword ==
  /\ Holding("update", "store")
  /\ row[op.conn] < MaxConfig
  /\ \/ Works /\ op' = [op EXCEPT !.pc = "write", !.wrote = TRUE,
                                  !.previous = keychain[op.conn]]
        /\ UNCHANGED astray
     \/ /\ keychain[op.conn] # 0
        /\ Fails
        /\ op' = [op EXCEPT !.pc = "write", !.wrote = TRUE, !.previous = 0]
        /\ astray' = astray \union {op.conn}
  /\ keychain' = [keychain EXCEPT ![op.conn] = row[op.conn] + 1]
  /\ UNCHANGED <<db, runtime, duck, create, asked, overwritten, restarts>>

\* Keychain.Set may fail after it removed the item it could not verify.
StorePasswordFails ==
  /\ Holding("update", "store")
  /\ row[op.conn] < MaxConfig
  /\ Fails
  /\ \/ UNCHANGED <<keychain, astray>>
     \/ /\ keychain' = [keychain EXCEPT ![op.conn] = 0]
        /\ astray' = astray \union {op.conn}
  /\ Release
  /\ UNCHANGED <<db, runtime, duck, create, asked, overwritten, restarts>>

UpdateRow ==
  /\ Holding("update", "write")
  /\ row' = [row EXCEPT ![op.conn] = @ + 1]
  /\ given' = IF op.wrote THEN [given EXCEPT ![op.conn] = row[op.conn] + 1] ELSE given
  /\ GoTo("written")
  /\ UNCHANGED <<linked, keychain, runtime, duck, create, asked, ghosts, failures, restarts>>

Forget == UNCHANGED <<keychain, failures, astray>>                       \* mutant
PutBack ==
  \/ /\ Works
     /\ keychain' = IF op.wrote THEN [keychain EXCEPT ![op.conn] = op.previous]
                    ELSE keychain
     /\ UNCHANGED astray
  \/ /\ op.wrote
     /\ Fails
     /\ astray' = astray \union {op.conn}
     /\ UNCHANGED keychain

UpdateRowFails ==
  /\ Holding("update", "write")
  /\ PutBack
  /\ Release
  /\ UNCHANGED <<db, runtime, duck, create, asked, overwritten, restarts>>

Updated ==
  /\ Holding("update", "written")
  /\ SetRuntime(op.conn, Down)
  /\ Release
  /\ UNCHANGED <<db, keychain, duck, create, asked, ghosts, failures, restarts>>

-------------------------------------------------------------------------------
(* DeleteConnection: the row first, then the Keychain item, then the       *)
(* runtime state.                                                          *)

LookForSecret ==
  /\ Holding("delete", "look")
  /\ \/ Works /\ op' = [op EXCEPT !.pc = "remove", !.wrote = keychain[op.conn] # 0]
     \/ Fails /\ Release
  /\ UNCHANGED <<db, keychain, runtime, duck, create, asked, ghosts, restarts>>

DeleteRow ==
  /\ Holding("delete", "remove")
  /\ \/ /\ Works
        /\ row' = [row EXCEPT ![op.conn] = 0]
        /\ given' = [given EXCEPT ![op.conn] = 0]
        /\ linked' = linked \ {op.conn}
        /\ GoTo("removed")
     \/ Fails /\ Release /\ UNCHANGED db
  /\ UNCHANGED <<keychain, runtime, duck, create, asked, ghosts, restarts>>

DeleteSecret ==
  /\ Holding("delete", "removed")
  /\ \/ /\ Works
        /\ keychain' = IF op.wrote THEN [keychain EXCEPT ![op.conn] = 0] ELSE keychain
        /\ SetRuntime(op.conn, Down)
        /\ UNCHANGED astray
     \/ /\ op.wrote
        /\ Fails
        /\ astray' = astray \union {op.conn}
        /\ UNCHANGED <<keychain, runtime>>
  /\ Release
  /\ UNCHANGED <<db, duck, create, asked, overwritten, restarts>>

-------------------------------------------------------------------------------
(* The project's links, and the end of the process, which takes the        *)
(* in-memory catalogs and temporary secrets with it.                       *)

LinkToProject(c) ==
  /\ row[c] # 0
  /\ linked' = linked \union {c}
  /\ linked' # linked
  /\ UNCHANGED <<row, given, keychain, runtime, duck, create, asked, op, ghosts, failures,
                 restarts>>

UnlinkFromProject(c) ==
  /\ c \in linked
  /\ linked' = linked \ {c}
  /\ UNCHANGED <<row, given, keychain, runtime, duck, create, asked, op, ghosts, failures,
                 restarts>>

\* A call that was storing a password leaves it as it is.
Storing == {c \in Connection : create[c] = "stored"}
           \union {op.conn : k \in {k \in {"update", "delete"} : Holding(k, "write")
                                                               \/ Holding(k, "removed")}}

Restart ==
  /\ restarts < MaxRestarts
  /\ restarts' = restarts + 1
  /\ astray' = astray \union Storing
  /\ create' = [c \in Connection |-> IF create[c] = "none" THEN "none" ELSE "done"]
  /\ runtime' = [c \in Connection |-> Down]
  /\ attached' = {}
  /\ catalog' = [c \in Connection |-> 0]
  /\ secrets' = {}
  /\ asked' = {}
  /\ op' = Free
  /\ UNCHANGED <<db, keychain, overwritten, failures>>

-------------------------------------------------------------------------------
Call(kind, c) == \/ ReturnsAtOnce(kind, c)
                 \/ kind = "connect" /\ BeginConnect(c)
                 \/ kind = "disconnect" /\ BeginDisconnect(c)
                 \/ kind = "update" /\ BeginUpdate(c)
                 \/ kind = "delete" /\ BeginDelete(c)

Creating(c) == \/ CreateSecret(c) \/ CreateRow(c) \/ CreateRowFails(c)
               \/ CreateState(c)

Working == \/ ReadPassword \/ Attach \/ AttachFails \/ Connected
           \/ Detach \/ DetachFails \/ Detached
           \/ UpdateRefused \/ KeepPassword \/ StorePassword \/ StorePasswordFails
           \/ UpdateRow \/ UpdateRowFails \/ Updated
           \/ LookForSecret \/ DeleteRow \/ DeleteSecret

Next == \/ \E c \in Connection : \/ Creating(c)
                                 \/ LinkToProject(c)
                                 \/ UnlinkFromProject(c)
                                 \/ \E kind \in Kind : Ask(kind, c) \/ Call(kind, c)
        \/ Working
        \/ Restart

Spec == Init /\ [][Next]_vars

(***************************************************************************)
(* The call that holds lifecycle is a goroutine that runs: ATTACH ends     *)
(* with the connect timeout of the configuration, the Keychain answers.    *)
(* The user need not call.                                                 *)
(***************************************************************************)
FairSpec == Spec /\ WF_vars(Working)

-------------------------------------------------------------------------------
Settled == op = Free

Pc == {"free", "password", "attach", "connected", "detach", "detached",
       "store", "write", "written", "look", "remove", "removed"}
Calls == [kind : Kind \union {"none"}, conn : Connection, pc : Pc,
          previous : 0..MaxConfig, wrote : BOOLEAN, secret : BOOLEAN]
Create == {"none", "stored", "saved", "done", "failed"}

\* The variables keep their types.
TypeOK == /\ row \in [Connection -> 0..MaxConfig]
          /\ linked \subseteq Connection
          /\ keychain \in [Connection -> 0..MaxConfig]
          /\ given \in [Connection -> 0..MaxConfig]
          /\ runtime \in [Connection -> [status : Status, secret : BOOLEAN]]
          /\ attached \subseteq Connection
          /\ catalog \in [Connection -> 0..MaxConfig]
          /\ secrets \subseteq Connection
          /\ create \in [Connection -> Create]
          /\ asked \subseteq {"connect", "disconnect"} \X Connection
          /\ op \in Calls
          /\ overwritten \subseteq Connection
          /\ astray \subseteq Connection
          /\ failures \in 0..MaxFailures
          /\ restarts \in 0..MaxRestarts

\* A connection shown as connected is attached, once no call is at work on
\* it, and a connection shown as disconnected has no catalog, unless Create
\* replaced its state (setRuntime of Connect, disconnectLocked and Update).
StatusIsTrue == \A c \in Connection \ overwritten :
                   Settled => /\ runtime[c].status = "connected" => c \in attached
                              /\ runtime[c].status = "disconnected" => c \notin attached
                              /\ runtime[c].status # "connecting"

\* What queries read is attached with the configuration that is saved: no
\* update changes the row under a catalog attached with the old one, also
\* after a DETACH failed (UpdateConnection, 165-170).
AttachedIsCurrent == \A c \in Connection : /\ c \in attached <=> catalog[c] # 0
                                           /\ catalog[c] \in {0, row[c]}

\* The password stored is the one saved with the configuration in the row:
\* an update changes both or neither, and a failed one puts the password
\* back, as long as the Keychain obeys and the process lives
\* (UpdateConnection, 179-214).
PasswordMatchesRow == \A c \in Connection \ astray :
                         row[c] # 0 /\ (Settled \/ op.conn # c) => keychain[c] = given[c]

\* Nothing is left of a connection that was deleted or could not be created:
\* no link, no catalog, no secret and, unless the Keychain failed, no
\* password (DeleteConnection, CreateConnection).
DeletedLeavesNothing ==
  \A c \in Connection :
     row[c] = 0 /\ create[c] \in {"done", "failed"} /\ (Settled \/ op.conn # c) =>
        /\ c \notin linked \union attached
        /\ catalog[c] = 0
        /\ c \in overwritten \/ c \notin secrets
        /\ c \in astray \/ keychain[c] = 0

\* A secret stays only while its catalog is attached ("removed on disconnect",
\* docs/security-model.md:51), for connections whose state Create did not replace.
TrackedSecretsAreRemoved == \A c \in secrets \ overwritten : Settled => c \in attached

\* What the catalogs show of a connection is so: its status tells whether it is
\* attached, and what is attached is the configuration that is saved.
AttachmentIsTrue == StatusIsTrue /\ AttachedIsCurrent

\* The password, the secret and what is left of a connection follow its row.
CredentialsFollowRow == /\ PasswordMatchesRow
                        /\ TrackedSecretsAreRemoved
                        /\ DeletedLeavesNothing

\* A connection does not stay "connecting": whatever fails on the way, the
\* call that showed it ends in another state (failConnection, setRuntime).
ConnectingEnds == \A c \in Connection : runtime[c].status = "connecting"
                                          ~> runtime[c].status # "connecting"
===============================================================================
