--------------------------- MODULE ConnectionsProofs --------------------------
(***************************************************************************)
(* For any number of connections, configurations, failures and restarts:   *)
(* the status of a connection tells whether it is attached, what is        *)
(* attached is what is saved, and passwords, secrets and what is left of a *)
(* connection follow its row.                                              *)
(***************************************************************************)
EXTENDS Connections, TLAPS

Idle(c) == op.pc = "free" \/ op.conn # c
At(c, pcs) == op.pc \in pcs /\ op.conn = c

Connecting == {"password", "attach", "connected"}
\* Where the call has found the connection detached, or has detached it.
Apart == {"detached", "store", "write", "written", "look", "remove", "removed"}

(* Where a call is tells what it has found and done.                         *)
OpInv ==
  /\ op.pc = "free" <=> op = Free
  /\ op.pc \in Connecting <=> op.kind = "connect"
  /\ op.pc \in {"store", "write", "written"} => op.kind = "update"
  /\ op.pc \in {"look", "remove", "removed"} => op.kind = "delete"
  /\ op.pc \notin {"free", "removed"} => row[op.conn] # 0
  /\ op.pc = "removed" => row[op.conn] = 0
  /\ op.pc = "write" => row[op.conn] < MaxConfig
  /\ op.pc \in Apart => op.conn \notin attached
  /\ op.pc = "connected" => op.conn \in attached
  /\ op.wrote => op.pc \in {"write", "written", "remove", "removed"}

(* Nobody knows a connection before its row is there, and of a row that is    *)
(* gone neither link nor catalog is left.                                    *)
RowInv(c) ==
  /\ create[c] \in {"none", "stored", "failed"} =>
       /\ row[c] = 0 /\ c \notin secrets /\ runtime[c] = Down /\ Idle(c)
  /\ create[c] = "none" => keychain[c] = 0
  /\ row[c] = 0 => /\ c \notin linked /\ c \notin attached /\ given[c] = 0
                   /\ Idle(c) \/ op.pc = "removed"

CatalogInv(c) == /\ c \in attached <=> catalog[c] # 0
                 /\ catalog[c] \in {0, row[c]}

(* Between calls the status is true, and a call that connects shows it.      *)
StatusInv(c) == c \notin overwritten =>
  /\ runtime[c].secret => runtime[c].status = "connected"
  /\ Idle(c) => /\ runtime[c].status = "connected" => c \in attached
                /\ runtime[c].status = "disconnected" => c \notin attached
                /\ runtime[c].status # "connecting"
  /\ At(c, Connecting) => runtime[c].status = "connecting"
  /\ At(c, Apart \ {"detached"}) => runtime[c].status \notin {"connected", "connecting"}

(* A secret has its catalog, and its name is known to the runtime state or   *)
(* to the call that replaces that state.                                     *)
SecretInv(c) == c \in secrets \ overwritten =>
  /\ Idle(c) => c \in attached /\ runtime[c].secret
  /\ ~At(c, {"password", "attach"} \union Apart)
  /\ At(c, {"connected", "detach"}) => c \in attached /\ op.secret

(* The password is the one of the row, except while a call changes them, and *)
(* then the call knows what to put back or to remove.                        *)
PasswordInv(c) == c \notin astray =>
  /\ create[c] # "stored" /\ ~At(c, {"write", "removed"}) => keychain[c] = given[c]
  /\ At(c, {"write"}) =>
       \/ op.wrote /\ op.previous = given[c] /\ keychain[c] = row[c] + 1
       \/ ~op.wrote /\ keychain[c] = given[c]
  /\ At(c, {"remove", "removed"}) => (op.wrote <=> keychain[c] # 0)

ConnInv(c) == /\ RowInv(c) /\ CatalogInv(c) /\ StatusInv(c)
              /\ SecretInv(c) /\ PasswordInv(c)

IInv == TypeOK /\ OpInv /\ \A c \in Connection : ConnInv(c)

USE DEF Idle, At, Connecting, Apart, Holding, SetRuntime, Kind, Status, Pc,
        Create, Down, Failed, db, duck, ghosts

-------------------------------------------------------------------------------

\* What the steps below use of the invariant.
LEMMA Parts ==
  ASSUME IInv
  PROVE  /\ TypeOK /\ OpInv
         /\ op.conn \in Connection /\ op.previous \in 0..MaxConfig
         /\ op.wrote \in BOOLEAN /\ op.secret \in BOOLEAN
         /\ \A c \in Connection : RowInv(c) /\ CatalogInv(c)
         /\ \A c \in Connection : StatusInv(c) /\ SecretInv(c)
         /\ \A c \in Connection : PasswordInv(c)
<1>1. TypeOK /\ OpInv /\ \A c \in Connection : ConnInv(c)
  BY DEF IInv
<1>2. /\ op.conn \in Connection /\ op.previous \in 0..MaxConfig
      /\ op.wrote \in BOOLEAN /\ op.secret \in BOOLEAN
  BY <1>1 DEF TypeOK, Calls
<1> QED
  BY <1>1, <1>2 DEF ConnInv

\* An operation works or fails, within the bound on failures.
LEMMA Failing ==
  ASSUME TypeOK
  PROVE  /\ ~(Works /\ Fails)
         /\ Works \/ Fails => failures' \in 0..MaxFailures
BY ConnectionsAssumption DEF TypeOK, Works, Fails

(* How the call that holds lifecycle changes.                                *)

LEMMA Released ==
  ASSUME Release
  PROVE  op' \in Calls /\ op' = Free /\ op'.pc = "free" /\ op'.kind = "none" /\ ~op'.wrote
BY ConnectionsAssumption DEF Release, Free, Calls

LEMMA Changed ==
  ASSUME NEW kind \in Kind \union {"none"}, NEW d \in Connection, NEW pc \in Pc \ {"free"},
         NEW n \in 0..MaxConfig, NEW w \in BOOLEAN, NEW s \in BOOLEAN,
         op' = [kind |-> kind, conn |-> d, pc |-> pc, previous |-> n,
                wrote |-> w, secret |-> s]
  PROVE  /\ op' \in Calls /\ op' # Free /\ op'.pc = pc
         /\ op'.kind = kind /\ op'.conn = d /\ op'.previous = n
         /\ op'.wrote = w /\ op'.secret = s
BY DEF Free, Calls

LEMMA GoesTo ==
  ASSUME op \in Calls, NEW pc \in Pc \ {"free"}, GoTo(pc)
  PROVE  /\ op' \in Calls /\ op' # Free /\ op'.pc = pc
         /\ op'.kind = op.kind /\ op'.conn = op.conn /\ op'.previous = op.previous
         /\ op'.wrote = op.wrote /\ op'.secret = op.secret
BY DEF GoTo, Free, Calls

LEMMA Begins ==
  ASSUME IInv, NEW kind \in Kind, NEW d \in Connection, NEW pc \in Pc \ {"free"},
         Begin(kind, d, pc)
  PROVE  /\ op.pc = "free" /\ row[d] # 0
         /\ op' \in Calls /\ op' # Free /\ op'.pc = pc
         /\ op'.kind = kind /\ op'.conn = d /\ ~op'.wrote
         /\ op'.secret = runtime[d].secret
         /\ asked' \subseteq asked
         /\ UNCHANGED <<db, keychain, duck, create, ghosts, failures, restarts>>
<1>1. op = Free /\ op.pc = "free"
  BY DEF Begin, Take, Free
<1>2. runtime[d].secret \in BOOLEAN
  BY DEF IInv, TypeOK
<1>3. /\ op' \in Calls /\ op' # Free /\ op'.pc = pc
      /\ op'.kind = kind /\ op'.conn = d /\ ~op'.wrote
      /\ op'.secret = runtime[d].secret
  <2>1. op' = [kind |-> kind, conn |-> d, pc |-> pc, previous |-> 0,
               wrote |-> FALSE, secret |-> runtime[d].secret]
    BY DEF Begin, Free
  <2>2. 0 \in 0..MaxConfig /\ kind \in Kind \union {"none"}
    BY ConnectionsAssumption
  <2> HIDE DEF Kind, Pc
  <2> QED
    BY <1>2, <2>1, <2>2, Changed
<1> QED
  BY <1>1, <1>3 DEF Begin, Take

-------------------------------------------------------------------------------
(* One lemma for each action. CreateConnection, the links, and who waits.    *)

LEMMA CreateSecretStep ==
  ASSUME IInv, NEW d \in Connection, CreateSecret(d)
  PROVE  IInv'
<1>1. TypeOK'
  <2>1. {0, 1} \subseteq 0..MaxConfig
    BY ConnectionsAssumption
  <2>2. keychain' \in [Connection -> 0..MaxConfig]
    BY <2>1, Parts DEF CreateSecret, TypeOK
  <2>3. /\ create' \in [Connection -> Create] /\ failures' \in 0..MaxFailures
        /\ astray' \subseteq Connection
    BY Parts, Failing DEF CreateSecret, TypeOK
  <2> QED
    BY <2>2, <2>3, Parts DEF CreateSecret, TypeOK
<1>2. OpInv'
  BY Parts DEF TypeOK, OpInv, RowInv, CreateSecret
<1>3. ASSUME NEW c \in Connection PROVE ConnInv(c)'
  BY Parts DEF TypeOK, OpInv, ConnInv, RowInv, CatalogInv,
                 StatusInv, SecretInv, PasswordInv, CreateSecret
<1> QED
  BY <1>1, <1>2, <1>3 DEF IInv

LEMMA CreateRowStep ==
  ASSUME IInv, NEW d \in Connection, CreateRow(d)
  PROVE  IInv'
<1>1. TypeOK'
  BY Parts, Failing, ConnectionsAssumption DEF TypeOK, CreateRow
<1>2. OpInv'
  BY Parts DEF TypeOK, OpInv, RowInv, CreateRow
<1>3. ASSUME NEW c \in Connection PROVE ConnInv(c)'
  BY Parts DEF TypeOK, OpInv, ConnInv, RowInv, CatalogInv,
                 StatusInv, SecretInv, PasswordInv, CreateRow
<1> QED
  BY <1>1, <1>2, <1>3 DEF IInv

LEMMA CreateRowFailsStep ==
  ASSUME IInv, NEW d \in Connection, CreateRowFails(d)
  PROVE  IInv'
<1>1. TypeOK'
  BY Parts, Failing, ConnectionsAssumption DEF TypeOK, CreateRowFails
<1>2. OpInv'
  BY Parts DEF TypeOK, OpInv, RowInv, CreateRowFails
<1>3. ASSUME NEW c \in Connection PROVE ConnInv(c)'
  BY Parts DEF TypeOK, OpInv, ConnInv, RowInv, CatalogInv,
                 StatusInv, SecretInv, PasswordInv, CreateRowFails
<1> QED
  BY <1>1, <1>2, <1>3 DEF IInv

LEMMA CreateStateStep ==
  ASSUME IInv, NEW d \in Connection, CreateState(d)
  PROVE  IInv'
<1>1. TypeOK'
  BY Parts, Failing, ConnectionsAssumption DEF TypeOK, CreateState
<1>2. OpInv'
  BY Parts DEF TypeOK, OpInv, RowInv, CreateState
<1>3. ASSUME NEW c \in Connection PROVE ConnInv(c)'
  BY Parts DEF TypeOK, OpInv, ConnInv, RowInv, CatalogInv,
                 StatusInv, SecretInv, PasswordInv, CreateState
<1> QED
  BY <1>1, <1>2, <1>3 DEF IInv

LEMMA AskStep ==
  ASSUME IInv, NEW kind \in Kind, NEW d \in Connection, Ask(kind, d)
  PROVE  IInv'
<1>1. TypeOK'
  BY Parts, Failing, ConnectionsAssumption DEF TypeOK, Ask
<1>2. OpInv'
  BY Parts DEF TypeOK, OpInv, RowInv, Ask
<1>3. ASSUME NEW c \in Connection PROVE ConnInv(c)'
  BY Parts DEF TypeOK, OpInv, ConnInv, RowInv, CatalogInv,
                 StatusInv, SecretInv, PasswordInv, Ask
<1> QED
  BY <1>1, <1>2, <1>3 DEF IInv

LEMMA ReturnsAtOnceStep ==
  ASSUME IInv, NEW kind \in Kind, NEW d \in Connection, ReturnsAtOnce(kind, d)
  PROVE  IInv'
<1>1. TypeOK'
  BY Parts, Failing, ConnectionsAssumption DEF TypeOK, ReturnsAtOnce, Take
<1>2. OpInv'
  BY Parts DEF TypeOK, OpInv, RowInv, ReturnsAtOnce, Take
<1>3. ASSUME NEW c \in Connection PROVE ConnInv(c)'
  BY Parts DEF TypeOK, OpInv, ConnInv, RowInv, CatalogInv,
                 StatusInv, SecretInv, PasswordInv, ReturnsAtOnce, Take
<1> QED
  BY <1>1, <1>2, <1>3 DEF IInv

LEMMA LinkToProjectStep ==
  ASSUME IInv, NEW d \in Connection, LinkToProject(d)
  PROVE  IInv'
<1>1. TypeOK'
  BY Parts, Failing, ConnectionsAssumption DEF TypeOK, LinkToProject
<1>2. OpInv'
  BY Parts DEF TypeOK, OpInv, RowInv, LinkToProject
<1>3. ASSUME NEW c \in Connection PROVE ConnInv(c)'
  BY Parts DEF TypeOK, OpInv, ConnInv, RowInv, CatalogInv,
                 StatusInv, SecretInv, PasswordInv, LinkToProject
<1> QED
  BY <1>1, <1>2, <1>3 DEF IInv

LEMMA UnlinkFromProjectStep ==
  ASSUME IInv, NEW d \in Connection, UnlinkFromProject(d)
  PROVE  IInv'
<1>1. TypeOK'
  BY Parts, Failing, ConnectionsAssumption DEF TypeOK, UnlinkFromProject
<1>2. OpInv'
  BY Parts DEF TypeOK, OpInv, RowInv, UnlinkFromProject
<1>3. ASSUME NEW c \in Connection PROVE ConnInv(c)'
  BY Parts DEF TypeOK, OpInv, ConnInv, RowInv, CatalogInv,
                 StatusInv, SecretInv, PasswordInv, UnlinkFromProject
<1> QED
  BY <1>1, <1>2, <1>3 DEF IInv

(* Who gets the mutex.                                                       *)

LEMMA BeginConnectStep ==
  ASSUME IInv, NEW d \in Connection, BeginConnect(d)
  PROVE  IInv'
<1>1. /\ op.pc = "free" /\ row[d] # 0
      /\ op' \in Calls /\ op' # Free /\ op'.pc = "password"
      /\ op'.kind = "connect" /\ op'.conn = d /\ ~op'.wrote
      /\ op'.secret = runtime[d].secret /\ asked' \subseteq asked
      /\ UNCHANGED <<db, keychain, duck, create, ghosts, failures, restarts>>
  BY Begins DEF BeginConnect
<1>2. TypeOK'
  BY <1>1, Parts, Failing, ConnectionsAssumption DEF TypeOK, BeginConnect
<1>3. OpInv'
  BY <1>1, Parts DEF TypeOK, OpInv, RowInv, BeginConnect
<1>4. ASSUME NEW c \in Connection PROVE ConnInv(c)'
  <2>1. RowInv(c)'
    BY <1>1, Parts DEF TypeOK, OpInv, RowInv, BeginConnect
  <2>2. CatalogInv(c)'
    BY <1>1, Parts DEF TypeOK, OpInv, RowInv, CatalogInv, BeginConnect
  <2>3. StatusInv(c)'
    BY <1>1, Parts DEF TypeOK, OpInv, RowInv, StatusInv, BeginConnect
  <2>4. SecretInv(c)'
    BY <1>1, Parts DEF TypeOK, OpInv, RowInv, StatusInv, SecretInv, BeginConnect
  <2>5. PasswordInv(c)'
    BY <1>1, Parts DEF TypeOK, OpInv, RowInv, PasswordInv, BeginConnect
  <2> QED
    BY <2>1, <2>2, <2>3, <2>4, <2>5 DEF ConnInv
<1> QED
  BY <1>2, <1>3, <1>4 DEF IInv

LEMMA BeginDisconnectStep ==
  ASSUME IInv, NEW d \in Connection, BeginDisconnect(d)
  PROVE  IInv'
<1>1. /\ op.pc = "free" /\ row[d] # 0
      /\ op' \in Calls /\ op' # Free /\ op'.pc = "detach"
      /\ op'.kind = "disconnect" /\ op'.conn = d /\ ~op'.wrote
      /\ op'.secret = runtime[d].secret /\ asked' \subseteq asked
      /\ UNCHANGED <<db, keychain, duck, create, ghosts, failures, restarts>>
  BY Begins DEF BeginDisconnect, InUse
<1>2. TypeOK'
  BY <1>1, Parts, Failing, ConnectionsAssumption DEF TypeOK, BeginDisconnect, InUse
<1>3. OpInv'
  BY <1>1, Parts DEF TypeOK, OpInv, RowInv, BeginDisconnect, InUse
<1>4. ASSUME NEW c \in Connection PROVE ConnInv(c)'
  BY <1>1, Parts DEF TypeOK, OpInv, ConnInv, RowInv, CatalogInv,
                 StatusInv, SecretInv, PasswordInv, BeginDisconnect, InUse
<1> QED
  BY <1>2, <1>3, <1>4 DEF IInv

LEMMA BeginUpdateStep ==
  ASSUME IInv, NEW d \in Connection, BeginUpdate(d)
  PROVE  IInv'
<1>1. CASE MustDetach(d)
  <2>1. /\ op.pc = "free" /\ row[d] # 0
        /\ op' \in Calls /\ op' # Free /\ op'.pc = "detach"
        /\ op'.kind = "update" /\ op'.conn = d /\ ~op'.wrote
        /\ op'.secret = runtime[d].secret /\ asked' \subseteq asked
        /\ UNCHANGED <<db, keychain, duck, create, ghosts, failures, restarts>>
    BY <1>1, Begins DEF BeginUpdate, MustDetach
  <2>2. TypeOK'
    BY <1>1, <2>1, Parts, Failing, ConnectionsAssumption DEF TypeOK, BeginUpdate, MustDetach
  <2>3. OpInv'
    BY <1>1, <2>1, Parts DEF TypeOK, OpInv, RowInv, BeginUpdate, MustDetach
  <2>4. ASSUME NEW c \in Connection PROVE ConnInv(c)'
    BY <1>1, <2>1, Parts DEF TypeOK, OpInv, ConnInv, RowInv, CatalogInv,
                   StatusInv, SecretInv, PasswordInv, BeginUpdate, MustDetach
  <2> QED
    BY <2>2, <2>3, <2>4 DEF IInv
<1>2. CASE ~MustDetach(d)
  <2>1. /\ op.pc = "free" /\ row[d] # 0
        /\ op' \in Calls /\ op' # Free /\ op'.pc = "store"
        /\ op'.kind = "update" /\ op'.conn = d /\ ~op'.wrote
        /\ op'.secret = runtime[d].secret /\ asked' \subseteq asked
        /\ UNCHANGED <<db, keychain, duck, create, ghosts, failures, restarts>>
    BY <1>2, Begins DEF BeginUpdate, MustDetach
  <2>2. TypeOK'
    BY <1>2, <2>1, Parts, Failing, ConnectionsAssumption DEF TypeOK, BeginUpdate, MustDetach
  <2>3. OpInv'
    BY <1>2, <2>1, Parts DEF TypeOK, OpInv, RowInv, BeginUpdate, MustDetach
  <2>4. ASSUME NEW c \in Connection PROVE ConnInv(c)'
    BY <1>2, <2>1, Parts DEF TypeOK, OpInv, ConnInv, RowInv, CatalogInv,
                   StatusInv, SecretInv, PasswordInv, BeginUpdate, MustDetach
  <2> QED
    BY <2>2, <2>3, <2>4 DEF IInv
<1> QED
  BY <1>1, <1>2 DEF BeginUpdate

LEMMA BeginDeleteStep ==
  ASSUME IInv, NEW d \in Connection, BeginDelete(d)
  PROVE  IInv'
<1>1. CASE InUse(d)
  <2>1. /\ op.pc = "free" /\ row[d] # 0
        /\ op' \in Calls /\ op' # Free /\ op'.pc = "detach"
        /\ op'.kind = "delete" /\ op'.conn = d /\ ~op'.wrote
        /\ op'.secret = runtime[d].secret /\ asked' \subseteq asked
        /\ UNCHANGED <<db, keychain, duck, create, ghosts, failures, restarts>>
    BY <1>1, Begins DEF BeginDelete, InUse
  <2>2. TypeOK'
    BY <1>1, <2>1, Parts, Failing, ConnectionsAssumption DEF TypeOK, BeginDelete, InUse
  <2>3. OpInv'
    BY <1>1, <2>1, Parts DEF TypeOK, OpInv, RowInv, BeginDelete, InUse
  <2>4. ASSUME NEW c \in Connection PROVE ConnInv(c)'
    BY <1>1, <2>1, Parts DEF TypeOK, OpInv, ConnInv, RowInv, CatalogInv,
                   StatusInv, SecretInv, PasswordInv, BeginDelete, InUse
  <2> QED
    BY <2>2, <2>3, <2>4 DEF IInv
<1>2. CASE ~InUse(d)
  <2>1. /\ op.pc = "free" /\ row[d] # 0
        /\ op' \in Calls /\ op' # Free /\ op'.pc = "look"
        /\ op'.kind = "delete" /\ op'.conn = d /\ ~op'.wrote
        /\ op'.secret = runtime[d].secret /\ asked' \subseteq asked
        /\ UNCHANGED <<db, keychain, duck, create, ghosts, failures, restarts>>
    BY <1>2, Begins DEF BeginDelete, InUse
  <2>2. TypeOK'
    BY <1>2, <2>1, Parts, Failing, ConnectionsAssumption DEF TypeOK, BeginDelete, InUse
  <2>3. OpInv'
    BY <1>2, <2>1, Parts DEF TypeOK, OpInv, RowInv, BeginDelete, InUse
  <2>4. ASSUME NEW c \in Connection PROVE ConnInv(c)'
    BY <1>2, <2>1, Parts DEF TypeOK, OpInv, ConnInv, RowInv, CatalogInv,
                   StatusInv, SecretInv, PasswordInv, BeginDelete, InUse
  <2> QED
    BY <2>2, <2>3, <2>4 DEF IInv
<1> QED
  BY <1>1, <1>2 DEF BeginDelete

(* Connect.                                                                  *)

LEMMA ReadPasswordStep ==
  ASSUME IInv, ReadPassword
  PROVE  IInv'
<1>1. CASE Works /\ GoTo("attach") /\ UNCHANGED runtime
  <2>1. /\ op' \in Calls /\ op' # Free /\ op'.pc = "attach"
        /\ op'.kind = op.kind /\ op'.conn = op.conn /\ op'.previous = op.previous
        /\ op'.wrote = op.wrote /\ op'.secret = op.secret
    BY <1>1, GoesTo DEF ReadPassword, IInv, TypeOK
  <2>2. TypeOK'
    BY <1>1, <2>1, Parts, Failing, ConnectionsAssumption DEF TypeOK, ReadPassword
  <2>3. OpInv'
    BY <1>1, <2>1, Parts DEF TypeOK, OpInv, RowInv, ReadPassword
  <2>4. ASSUME NEW c \in Connection PROVE ConnInv(c)'
    BY <1>1, <2>1, Parts DEF TypeOK, OpInv, ConnInv, RowInv, CatalogInv,
                   StatusInv, SecretInv, PasswordInv, ReadPassword
  <2> QED
    BY <2>2, <2>3, <2>4 DEF IInv
<1>2. CASE Fails /\ FailConnection
  <2>1. op' \in Calls /\ op' = Free /\ op'.pc = "free" /\ op'.kind = "none" /\ ~op'.wrote
    BY <1>2, Released DEF ReadPassword, FailConnection
  <2>2. TypeOK'
    BY <1>2, <2>1, Parts, Failing, ConnectionsAssumption
       DEF TypeOK, ReadPassword, FailConnection
  <2>3. OpInv'
    BY <1>2, <2>1, Parts DEF TypeOK, OpInv, RowInv, ReadPassword, FailConnection
  <2>4. ASSUME NEW c \in Connection PROVE ConnInv(c)'
    BY <1>2, <2>1, Parts DEF TypeOK, OpInv, ConnInv, RowInv, CatalogInv,
                   StatusInv, SecretInv, PasswordInv, ReadPassword, FailConnection
  <2> QED
    BY <2>2, <2>3, <2>4 DEF IInv
<1> QED
  BY <1>1, <1>2 DEF ReadPassword

LEMMA AttachStep ==
  ASSUME IInv, Attach
  PROVE  IInv'
<1>1. CASE op.conn \in attached
  <2>1. /\ op' \in Calls /\ op' # Free /\ op'.pc = "connected"
        /\ op'.kind = op.kind /\ op'.conn = op.conn /\ op'.wrote = op.wrote
        /\ UNCHANGED duck
    <3>1. op' = [kind |-> op.kind, conn |-> op.conn, pc |-> "connected",
                 previous |-> op.previous, wrote |-> op.wrote, secret |-> FALSE]
      BY <1>1, Parts, Failing DEF Attach, TypeOK, Calls
    <3>2. op.kind \in Kind \union {"none"} /\ op.previous \in 0..MaxConfig
      BY Parts, ConnectionsAssumption DEF TypeOK, Calls
    <3> QED
      BY <1>1, <3>1, <3>2, Parts, Failing, Changed, ConnectionsAssumption DEF Attach
  <2>2. TypeOK'
    BY <1>1, <2>1, Parts, Failing, ConnectionsAssumption DEF TypeOK, Attach
  <2>3. OpInv'
    BY <1>1, <2>1, Parts DEF TypeOK, OpInv, RowInv, Attach
  <2>4. ASSUME NEW c \in Connection PROVE ConnInv(c)'
    <3>1. RowInv(c)'
      BY <1>1, <2>1, Parts DEF TypeOK, OpInv, RowInv, Attach
    <3>2. CatalogInv(c)'
      BY <1>1, <2>1, Parts DEF TypeOK, OpInv, RowInv, CatalogInv, Attach
    <3>3. StatusInv(c)'
      BY <1>1, <2>1, Parts DEF TypeOK, OpInv, RowInv, StatusInv, Attach
    <3>4. SecretInv(c)'
      BY <1>1, <2>1, Parts DEF TypeOK, OpInv, RowInv, StatusInv, SecretInv, Attach
    <3>5. PasswordInv(c)'
      BY <1>1, <2>1, Parts DEF TypeOK, OpInv, RowInv, PasswordInv, Attach
    <3> QED
      BY <3>1, <3>2, <3>3, <3>4, <3>5 DEF ConnInv
  <2> QED
    BY <2>2, <2>3, <2>4 DEF IInv
<1>2. CASE op.conn \notin attached
  <2>1. /\ op' \in Calls /\ op' # Free /\ op'.pc = "connected"
        /\ op'.kind = op.kind /\ op'.conn = op.conn /\ op'.wrote = op.wrote
        /\ attached' = attached \union {op.conn}
        /\ catalog' = [catalog EXCEPT ![op.conn] = row[op.conn]]
        /\ \/ op'.secret /\ secrets' = secrets \union {op.conn}
           \/ secrets' = secrets
    <3>1. PICK named \in BOOLEAN :
            /\ secrets' = IF named THEN secrets \union {op.conn} ELSE secrets
            /\ op' = [op EXCEPT !.pc = "connected", !.secret = named]
      BY <1>2 DEF Attach
    <3>2. op' = [kind |-> op.kind, conn |-> op.conn, pc |-> "connected",
                 previous |-> op.previous, wrote |-> op.wrote, secret |-> named]
      BY <1>2, <3>1, Parts, Failing DEF Attach, TypeOK, Calls
    <3>3. op.kind \in Kind \union {"none"} /\ op.previous \in 0..MaxConfig
      BY Parts, ConnectionsAssumption DEF TypeOK, Calls
    <3> QED
      BY <1>2, <3>1, <3>2, <3>3, Parts, Failing, Changed, ConnectionsAssumption DEF Attach
  <2>2. TypeOK'
    BY <1>2, <2>1, Parts, Failing, ConnectionsAssumption DEF TypeOK, Attach
  <2>3. OpInv'
    BY <1>2, <2>1, Parts DEF TypeOK, OpInv, RowInv, Attach
  <2>4. ASSUME NEW c \in Connection PROVE ConnInv(c)'
    <3>1. RowInv(c)'
      BY <1>2, <2>1, Parts DEF TypeOK, OpInv, RowInv, Attach
    <3>2. CatalogInv(c)'
      BY <1>2, <2>1, Parts DEF TypeOK, OpInv, RowInv, CatalogInv, Attach
    <3>3. StatusInv(c)'
      BY <1>2, <2>1, Parts DEF TypeOK, OpInv, RowInv, StatusInv, Attach
    <3>4. SecretInv(c)'
      <4>1. c \in secrets' => c \in secrets \/ (c = op.conn /\ op'.secret)
        BY <2>1
      <4>2. /\ UNCHANGED <<runtime, overwritten>> /\ op.pc = "attach"
            /\ attached' = attached \union {op.conn}
        BY <2>1 DEF Attach
      <4> QED
        BY <2>1, <4>1, <4>2, Parts DEF SecretInv
    <3>5. PasswordInv(c)'
      BY <1>2, <2>1, Parts DEF TypeOK, OpInv, RowInv, PasswordInv, Attach
    <3> QED
      BY <3>1, <3>2, <3>3, <3>4, <3>5 DEF ConnInv
  <2> QED
    BY <2>2, <2>3, <2>4 DEF IInv
<1> QED
  BY <1>1, <1>2 DEF Attach

LEMMA AttachFailsStep ==
  ASSUME IInv, AttachFails
  PROVE  IInv'
<1>1. op' \in Calls /\ op' = Free /\ op'.pc = "free" /\ op'.kind = "none" /\ ~op'.wrote
  BY Released DEF AttachFails, FailConnection
<1>2. TypeOK'
  BY <1>1, Parts, Failing, ConnectionsAssumption DEF TypeOK, AttachFails, FailConnection
<1>3. OpInv'
  BY <1>1, Parts DEF TypeOK, OpInv, RowInv, AttachFails, FailConnection
<1>4. ASSUME NEW c \in Connection PROVE ConnInv(c)'
  BY <1>1, Parts DEF TypeOK, OpInv, ConnInv, RowInv, CatalogInv,
                 StatusInv, SecretInv, PasswordInv, AttachFails, FailConnection
<1> QED
  BY <1>2, <1>3, <1>4 DEF IInv

LEMMA ConnectedStep ==
  ASSUME IInv, Connected
  PROVE  IInv'
<1>1. op' \in Calls /\ op' = Free /\ op'.pc = "free" /\ op'.kind = "none" /\ ~op'.wrote
  BY Released DEF Connected
<1>2. TypeOK'
  BY <1>1, Parts, Failing, ConnectionsAssumption DEF TypeOK, Connected
<1>3. OpInv'
  BY <1>1, Parts DEF TypeOK, OpInv, RowInv, Connected
<1>4. ASSUME NEW c \in Connection PROVE ConnInv(c)'
  <2>1. RowInv(c)'
    BY <1>1, Parts DEF TypeOK, OpInv, RowInv, Connected
  <2>2. CatalogInv(c)'
    BY <1>1, Parts DEF TypeOK, OpInv, RowInv, CatalogInv, Connected
  <2>3. StatusInv(c)'
    BY <1>1, Parts DEF TypeOK, OpInv, RowInv, StatusInv, Connected
  <2>4. SecretInv(c)'
    BY <1>1, Parts DEF TypeOK, OpInv, RowInv, StatusInv, SecretInv, Connected
  <2>5. PasswordInv(c)'
    BY <1>1, Parts DEF TypeOK, OpInv, RowInv, PasswordInv, Connected
  <2> QED
    BY <2>1, <2>2, <2>3, <2>4, <2>5 DEF ConnInv
<1> QED
  BY <1>2, <1>3, <1>4 DEF IInv

(* disconnectLocked.                                                         *)

LEMMA DetachStep ==
  ASSUME IInv, Detach
  PROVE  IInv'
<1>1. /\ op' \in Calls /\ op' # Free /\ op'.pc = "detached"
      /\ op'.kind = op.kind /\ op'.conn = op.conn /\ op'.previous = op.previous
      /\ op'.wrote = op.wrote /\ op'.secret = op.secret
  BY GoesTo DEF Detach, DropSecret, IInv, TypeOK
<1>2. TypeOK'
  BY <1>1, Parts, Failing, ConnectionsAssumption DEF TypeOK, Detach, DropSecret
<1>3. OpInv'
  BY <1>1, Parts DEF TypeOK, OpInv, RowInv, Detach, DropSecret
<1>4. ASSUME NEW c \in Connection PROVE ConnInv(c)'
  BY <1>1, Parts DEF TypeOK, OpInv, ConnInv, RowInv, CatalogInv,
                 StatusInv, SecretInv, PasswordInv, Detach, DropSecret
<1> QED
  BY <1>2, <1>3, <1>4 DEF IInv

LEMMA DetachFailsStep ==
  ASSUME IInv, DetachFails
  PROVE  IInv'
<1>1. op' \in Calls /\ op' = Free /\ op'.pc = "free" /\ op'.kind = "none" /\ ~op'.wrote
  BY Released DEF DetachFails, FailConnection, DropSecret
<1>2. TypeOK'
  BY <1>1, Parts, Failing, ConnectionsAssumption
     DEF TypeOK, DetachFails, FailConnection, DropSecret
<1>3. OpInv'
  BY <1>1, Parts DEF TypeOK, OpInv, RowInv, DetachFails, FailConnection, DropSecret
<1>4. ASSUME NEW c \in Connection PROVE ConnInv(c)'
  BY <1>1, Parts DEF TypeOK, OpInv, ConnInv, RowInv, CatalogInv,
                 StatusInv, SecretInv, PasswordInv, DetachFails, FailConnection, DropSecret
<1> QED
  BY <1>2, <1>3, <1>4 DEF IInv

LEMMA DetachedStep ==
  ASSUME IInv, Detached
  PROVE  IInv'
<1>1. CASE op.kind = "disconnect" /\ Release
  <2>1. op' \in Calls /\ op' = Free /\ op'.pc = "free" /\ op'.kind = "none" /\ ~op'.wrote
    BY <1>1, Released DEF Detached
  <2>2. TypeOK'
    BY <1>1, <2>1, Parts, Failing, ConnectionsAssumption DEF TypeOK, Detached
  <2>3. OpInv'
    BY <1>1, <2>1, Parts DEF TypeOK, OpInv, RowInv, Detached
  <2>4. ASSUME NEW c \in Connection PROVE ConnInv(c)'
    <3>1. RowInv(c)'
      BY <1>1, <2>1, Parts DEF TypeOK, OpInv, RowInv, Detached
    <3>2. CatalogInv(c)'
      BY <1>1, <2>1, Parts DEF TypeOK, OpInv, RowInv, CatalogInv, Detached
    <3>3. StatusInv(c)'
      BY <1>1, <2>1, Parts DEF TypeOK, OpInv, RowInv, StatusInv, Detached
    <3>4. SecretInv(c)'
      BY <1>1, <2>1, Parts DEF TypeOK, OpInv, RowInv, StatusInv, SecretInv, Detached
    <3>5. PasswordInv(c)'
      BY <1>1, <2>1, Parts DEF TypeOK, OpInv, RowInv, PasswordInv, Detached
    <3> QED
      BY <3>1, <3>2, <3>3, <3>4, <3>5 DEF ConnInv
  <2> QED
    BY <2>2, <2>3, <2>4 DEF IInv
<1>2. CASE op.kind = "update" /\ GoTo("store")
  <2>1. /\ op' \in Calls /\ op' # Free /\ op'.pc = "store"
        /\ op'.kind = op.kind /\ op'.conn = op.conn /\ op'.previous = op.previous
        /\ op'.wrote = op.wrote /\ op'.secret = op.secret
    BY <1>2, GoesTo DEF Detached, IInv, TypeOK
  <2>2. TypeOK'
    BY <1>2, <2>1, Parts, Failing, ConnectionsAssumption DEF TypeOK, Detached
  <2>3. OpInv'
    BY <1>2, <2>1, Parts DEF TypeOK, OpInv, RowInv, Detached
  <2>4. ASSUME NEW c \in Connection PROVE ConnInv(c)'
    <3>1. RowInv(c)'
      BY <1>2, <2>1, Parts DEF TypeOK, OpInv, RowInv, Detached
    <3>2. CatalogInv(c)'
      BY <1>2, <2>1, Parts DEF TypeOK, OpInv, RowInv, CatalogInv, Detached
    <3>3. StatusInv(c)'
      BY <1>2, <2>1, Parts DEF TypeOK, OpInv, RowInv, StatusInv, Detached
    <3>4. SecretInv(c)'
      BY <1>2, <2>1, Parts DEF TypeOK, OpInv, RowInv, StatusInv, SecretInv, Detached
    <3>5. PasswordInv(c)'
      BY <1>2, <2>1, Parts DEF TypeOK, OpInv, RowInv, PasswordInv, Detached
    <3> QED
      BY <3>1, <3>2, <3>3, <3>4, <3>5 DEF ConnInv
  <2> QED
    BY <2>2, <2>3, <2>4 DEF IInv
<1>3. CASE op.kind = "delete" /\ GoTo("look")
  <2>1. /\ op' \in Calls /\ op' # Free /\ op'.pc = "look"
        /\ op'.kind = op.kind /\ op'.conn = op.conn /\ op'.previous = op.previous
        /\ op'.wrote = op.wrote /\ op'.secret = op.secret
    BY <1>3, GoesTo DEF Detached, IInv, TypeOK
  <2>2. TypeOK'
    BY <1>3, <2>1, Parts, Failing, ConnectionsAssumption DEF TypeOK, Detached
  <2>3. OpInv'
    BY <1>3, <2>1, Parts DEF TypeOK, OpInv, RowInv, Detached
  <2>4. ASSUME NEW c \in Connection PROVE ConnInv(c)'
    <3>1. RowInv(c)'
      BY <1>3, <2>1, Parts DEF TypeOK, OpInv, RowInv, Detached
    <3>2. CatalogInv(c)'
      BY <1>3, <2>1, Parts DEF TypeOK, OpInv, RowInv, CatalogInv, Detached
    <3>3. StatusInv(c)'
      BY <1>3, <2>1, Parts DEF TypeOK, OpInv, RowInv, StatusInv, Detached
    <3>4. SecretInv(c)'
      BY <1>3, <2>1, Parts DEF TypeOK, OpInv, RowInv, StatusInv, SecretInv, Detached
    <3>5. PasswordInv(c)'
      BY <1>3, <2>1, Parts DEF TypeOK, OpInv, RowInv, PasswordInv, Detached
    <3> QED
      BY <3>1, <3>2, <3>3, <3>4, <3>5 DEF ConnInv
  <2> QED
    BY <2>2, <2>3, <2>4 DEF IInv
<1> QED
  BY <1>1, <1>2, <1>3 DEF Detached

(* UpdateConnection.                                                         *)

LEMMA UpdateRefusedStep ==
  ASSUME IInv, UpdateRefused
  PROVE  IInv'
<1>1. op' \in Calls /\ op' = Free /\ op'.pc = "free" /\ op'.kind = "none" /\ ~op'.wrote
  BY Released DEF UpdateRefused
<1>2. TypeOK'
  BY <1>1, Parts, Failing, ConnectionsAssumption DEF TypeOK, UpdateRefused
<1>3. OpInv'
  BY <1>1, Parts DEF TypeOK, OpInv, RowInv, UpdateRefused
<1>4. ASSUME NEW c \in Connection PROVE ConnInv(c)'
  BY <1>1, Parts DEF TypeOK, OpInv, ConnInv, RowInv, CatalogInv,
                 StatusInv, SecretInv, PasswordInv, UpdateRefused
<1> QED
  BY <1>2, <1>3, <1>4 DEF IInv

LEMMA KeepPasswordStep ==
  ASSUME IInv, KeepPassword
  PROVE  IInv'
<1>1. /\ op' \in Calls /\ op' # Free /\ op'.pc = "write"
      /\ op'.kind = op.kind /\ op'.conn = op.conn /\ op'.previous = op.previous
      /\ op'.wrote = op.wrote /\ op'.secret = op.secret
  BY GoesTo DEF KeepPassword, IInv, TypeOK
<1>2. TypeOK'
  BY <1>1, Parts, Failing, ConnectionsAssumption DEF TypeOK, KeepPassword
<1>3. OpInv'
  BY <1>1, Parts DEF TypeOK, OpInv, RowInv, KeepPassword
<1>4. ASSUME NEW c \in Connection PROVE ConnInv(c)'
  BY <1>1, Parts DEF TypeOK, OpInv, ConnInv, RowInv, CatalogInv,
                 StatusInv, SecretInv, PasswordInv, KeepPassword
<1> QED
  BY <1>2, <1>3, <1>4 DEF IInv

LEMMA StorePasswordStep ==
  ASSUME IInv, StorePassword
  PROVE  IInv'
<1>1. CASE Works
  <2>1. /\ op' \in Calls /\ op' # Free /\ op'.pc = "write"
        /\ op'.kind = op.kind /\ op'.conn = op.conn
        /\ op'.wrote /\ op'.previous = keychain[op.conn]
        /\ UNCHANGED astray
    <3>1. op' = [kind |-> op.kind, conn |-> op.conn, pc |-> "write",
                 previous |-> keychain[op.conn], wrote |-> TRUE, secret |-> op.secret]
      BY <1>1, Parts, Failing DEF StorePassword, TypeOK, Calls
    <3>2. op.kind \in Kind \union {"none"} /\ keychain[op.conn] \in 0..MaxConfig
      BY Parts, ConnectionsAssumption DEF TypeOK, Calls
    <3> QED
      BY <1>1, <3>1, <3>2, Parts, Failing, Changed, ConnectionsAssumption DEF StorePassword
  <2>2. TypeOK'
    BY <1>1, <2>1, Parts, Failing, ConnectionsAssumption DEF TypeOK, StorePassword
  <2>3. OpInv'
    BY <1>1, <2>1, Parts DEF TypeOK, OpInv, RowInv, StorePassword
  <2>4. ASSUME NEW c \in Connection PROVE ConnInv(c)'
    BY <1>1, <2>1, Parts DEF TypeOK, OpInv, ConnInv, RowInv, CatalogInv,
                   StatusInv, SecretInv, PasswordInv, StorePassword
  <2> QED
    BY <2>2, <2>3, <2>4 DEF IInv
<1>2. CASE ~Works
  <2>1. /\ op' \in Calls /\ op' # Free /\ op'.pc = "write"
        /\ op'.kind = op.kind /\ op'.conn = op.conn
        /\ astray' = astray \union {op.conn} /\ Fails
    <3>1. Fails /\ astray' = astray \union {op.conn}
      BY <1>2 DEF StorePassword
    <3>2. op' = [kind |-> op.kind, conn |-> op.conn, pc |-> "write", previous |-> 0,
                 wrote |-> TRUE, secret |-> op.secret]
      BY <1>2, <3>1, Parts, Failing DEF StorePassword, TypeOK, Calls
    <3>3. op.kind \in Kind \union {"none"} /\ 0 \in 0..MaxConfig
      BY Parts, ConnectionsAssumption DEF TypeOK, Calls
    <3> QED
      BY <3>1, <3>2, <3>3, Parts, Changed, ConnectionsAssumption
  <2>2. TypeOK'
    BY <1>2, <2>1, Parts, Failing, ConnectionsAssumption DEF TypeOK, StorePassword
  <2>3. OpInv'
    BY <1>2, <2>1, Parts DEF TypeOK, OpInv, RowInv, StorePassword
  <2>4. ASSUME NEW c \in Connection PROVE ConnInv(c)'
    BY <1>2, <2>1, Parts DEF TypeOK, OpInv, ConnInv, RowInv, CatalogInv,
                   StatusInv, SecretInv, PasswordInv, StorePassword
  <2> QED
    BY <2>2, <2>3, <2>4 DEF IInv
<1> QED
  BY <1>1, <1>2 DEF StorePassword

LEMMA StorePasswordFailsStep ==
  ASSUME IInv, StorePasswordFails
  PROVE  IInv'
<1>1. op' \in Calls /\ op' = Free /\ op'.pc = "free" /\ op'.kind = "none" /\ ~op'.wrote
  BY Released DEF StorePasswordFails
<1>2. TypeOK'
  BY <1>1, Parts, Failing, ConnectionsAssumption DEF TypeOK, StorePasswordFails
<1>3. OpInv'
  BY <1>1, Parts DEF TypeOK, OpInv, RowInv, StorePasswordFails
<1>4. ASSUME NEW c \in Connection PROVE ConnInv(c)'
  BY <1>1, Parts DEF TypeOK, OpInv, ConnInv, RowInv, CatalogInv,
                 StatusInv, SecretInv, PasswordInv, StorePasswordFails
<1> QED
  BY <1>2, <1>3, <1>4 DEF IInv

LEMMA UpdateRowStep ==
  ASSUME IInv, UpdateRow
  PROVE  IInv'
<1>1. /\ op' \in Calls /\ op' # Free /\ op'.pc = "written"
      /\ op'.kind = op.kind /\ op'.conn = op.conn /\ op'.previous = op.previous
      /\ op'.wrote = op.wrote /\ op'.secret = op.secret
  BY GoesTo DEF UpdateRow, IInv, TypeOK
<1>2. TypeOK'
  BY <1>1, Parts, Failing, ConnectionsAssumption DEF TypeOK, OpInv, UpdateRow
<1>3. OpInv'
  BY <1>1, Parts DEF TypeOK, OpInv, RowInv, UpdateRow
<1>4. ASSUME NEW c \in Connection PROVE ConnInv(c)'
  BY <1>1, Parts DEF TypeOK, OpInv, ConnInv, RowInv, CatalogInv,
                 StatusInv, SecretInv, PasswordInv, UpdateRow
<1> QED
  BY <1>2, <1>3, <1>4 DEF IInv

LEMMA UpdateRowFailsStep ==
  ASSUME IInv, UpdateRowFails
  PROVE  IInv'
<1>1. op' \in Calls /\ op' = Free /\ op'.pc = "free" /\ op'.kind = "none" /\ ~op'.wrote
  BY Released DEF UpdateRowFails, PutBack
<1>2. TypeOK'
  BY <1>1, Parts, Failing, ConnectionsAssumption DEF TypeOK, UpdateRowFails, PutBack
<1>3. OpInv'
  BY <1>1, Parts DEF TypeOK, OpInv, RowInv, UpdateRowFails, PutBack
<1>4. ASSUME NEW c \in Connection PROVE ConnInv(c)'
  BY <1>1, Parts DEF TypeOK, OpInv, ConnInv, RowInv, CatalogInv,
                 StatusInv, SecretInv, PasswordInv, UpdateRowFails, PutBack
<1> QED
  BY <1>2, <1>3, <1>4 DEF IInv

LEMMA UpdatedStep ==
  ASSUME IInv, Updated
  PROVE  IInv'
<1>1. op' \in Calls /\ op' = Free /\ op'.pc = "free" /\ op'.kind = "none" /\ ~op'.wrote
  BY Released DEF Updated
<1>2. TypeOK'
  BY <1>1, Parts, Failing, ConnectionsAssumption DEF TypeOK, Updated
<1>3. OpInv'
  BY <1>1, Parts DEF TypeOK, OpInv, RowInv, Updated
<1>4. ASSUME NEW c \in Connection PROVE ConnInv(c)'
  <2>1. RowInv(c)'
    BY <1>1, Parts DEF TypeOK, OpInv, RowInv, Updated
  <2>2. CatalogInv(c)'
    BY <1>1, Parts DEF TypeOK, OpInv, RowInv, CatalogInv, Updated
  <2>3. StatusInv(c)'
    BY <1>1, Parts DEF TypeOK, OpInv, RowInv, StatusInv, Updated
  <2>4. SecretInv(c)'
    BY <1>1, Parts DEF TypeOK, OpInv, RowInv, StatusInv, SecretInv, Updated
  <2>5. PasswordInv(c)'
    BY <1>1, Parts DEF TypeOK, OpInv, RowInv, PasswordInv, Updated
  <2> QED
    BY <2>1, <2>2, <2>3, <2>4, <2>5 DEF ConnInv
<1> QED
  BY <1>2, <1>3, <1>4 DEF IInv

(* DeleteConnection, and the end of the process.                             *)

LEMMA LookForSecretStep ==
  ASSUME IInv, LookForSecret
  PROVE  IInv'
<1>1. CASE Works
  <2>1. /\ op' \in Calls /\ op' # Free /\ op'.pc = "remove"
        /\ op'.kind = op.kind /\ op'.conn = op.conn
        /\ op'.wrote <=> keychain[op.conn] # 0
    <3>1. op' = [kind |-> op.kind, conn |-> op.conn, pc |-> "remove", previous |-> op.previous,
                 wrote |-> (keychain[op.conn] # 0), secret |-> op.secret]
      BY <1>1, Parts, Failing DEF LookForSecret, TypeOK, Calls
    <3>2. op.kind \in Kind \union {"none"} /\ op.previous \in 0..MaxConfig
      BY Parts, ConnectionsAssumption DEF TypeOK, Calls
    <3> QED
      BY <1>1, <3>1, <3>2, Parts, Failing, Changed, ConnectionsAssumption DEF LookForSecret
  <2>2. TypeOK'
    BY <1>1, <2>1, Parts, Failing, ConnectionsAssumption DEF TypeOK, LookForSecret
  <2>3. OpInv'
    BY <1>1, <2>1, Parts DEF TypeOK, OpInv, RowInv, LookForSecret
  <2>4. ASSUME NEW c \in Connection PROVE ConnInv(c)'
    BY <1>1, <2>1, Parts DEF TypeOK, OpInv, ConnInv, RowInv, CatalogInv,
                   StatusInv, SecretInv, PasswordInv, LookForSecret
  <2> QED
    BY <2>2, <2>3, <2>4 DEF IInv
<1>2. CASE Fails /\ Release
  <2>1. op' \in Calls /\ op' = Free /\ op'.pc = "free" /\ op'.kind = "none" /\ ~op'.wrote
    BY <1>2, Released DEF LookForSecret
  <2>2. TypeOK'
    BY <1>2, <2>1, Parts, Failing, ConnectionsAssumption DEF TypeOK, LookForSecret
  <2>3. OpInv'
    BY <1>2, <2>1, Parts DEF TypeOK, OpInv, RowInv, LookForSecret
  <2>4. ASSUME NEW c \in Connection PROVE ConnInv(c)'
    BY <1>2, <2>1, Parts DEF TypeOK, OpInv, ConnInv, RowInv, CatalogInv,
                   StatusInv, SecretInv, PasswordInv, LookForSecret
  <2> QED
    BY <2>2, <2>3, <2>4 DEF IInv
<1> QED
  BY <1>1, <1>2 DEF LookForSecret

LEMMA DeleteRowStep ==
  ASSUME IInv, DeleteRow
  PROVE  IInv'
<1>1. CASE Works
  <2>1. /\ GoTo("removed")
        /\ row' = [row EXCEPT ![op.conn] = 0] /\ given' = [given EXCEPT ![op.conn] = 0]
        /\ linked' = linked \ {op.conn}
    BY <1>1, Parts, Failing DEF DeleteRow
  <2>2. /\ op' \in Calls /\ op' # Free /\ op'.pc = "removed"
        /\ op'.kind = op.kind /\ op'.conn = op.conn /\ op'.wrote = op.wrote
    BY <2>1, GoesTo DEF IInv, TypeOK
  <2>3. TypeOK'
    BY <1>1, <2>1, <2>2, Parts, Failing, ConnectionsAssumption DEF TypeOK, DeleteRow
  <2>4. OpInv'
    BY <1>1, <2>1, <2>2, Parts DEF TypeOK, OpInv, RowInv, DeleteRow
  <2>5. ASSUME NEW c \in Connection PROVE ConnInv(c)'
    BY <1>1, <2>1, <2>2, Parts DEF TypeOK, OpInv, ConnInv, RowInv, CatalogInv,
                   StatusInv, SecretInv, PasswordInv, DeleteRow
  <2> QED
    BY <2>3, <2>4, <2>5 DEF IInv
<1>2. CASE Fails /\ Release /\ UNCHANGED db
  <2>1. op' \in Calls /\ op' = Free /\ op'.pc = "free" /\ op'.kind = "none" /\ ~op'.wrote
    BY <1>2, Released DEF DeleteRow
  <2>2. TypeOK'
    BY <1>2, <2>1, Parts, Failing, ConnectionsAssumption DEF TypeOK, DeleteRow
  <2>3. OpInv'
    BY <1>2, <2>1, Parts DEF TypeOK, OpInv, RowInv, DeleteRow
  <2>4. ASSUME NEW c \in Connection PROVE ConnInv(c)'
    BY <1>2, <2>1, Parts DEF TypeOK, OpInv, ConnInv, RowInv, CatalogInv,
                   StatusInv, SecretInv, PasswordInv, DeleteRow
  <2> QED
    BY <2>2, <2>3, <2>4 DEF IInv
<1> QED
  BY <1>1, <1>2 DEF DeleteRow

LEMMA DeleteSecretStep ==
  ASSUME IInv, DeleteSecret
  PROVE  IInv'
<1>1. CASE Works
  <2>1. op' \in Calls /\ op' = Free /\ op'.pc = "free" /\ op'.kind = "none" /\ ~op'.wrote
    BY Released DEF DeleteSecret
  <2>2. /\ keychain' = IF op.wrote THEN [keychain EXCEPT ![op.conn] = 0] ELSE keychain
        /\ runtime' = [runtime EXCEPT ![op.conn] = Down]
        /\ UNCHANGED astray
    BY <1>1, Parts, Failing DEF DeleteSecret
  <2>3. TypeOK'
    BY <1>1, <2>1, <2>2, Parts, Failing, ConnectionsAssumption DEF TypeOK, DeleteSecret
  <2>4. OpInv'
    BY <1>1, <2>1, <2>2, Parts DEF TypeOK, OpInv, RowInv, DeleteSecret
  <2>5. ASSUME NEW c \in Connection PROVE ConnInv(c)'
    <3>1. RowInv(c)'
      BY <1>1, <2>1, <2>2, Parts DEF TypeOK, OpInv, RowInv, DeleteSecret
    <3>2. CatalogInv(c)'
      BY <1>1, <2>1, <2>2, Parts DEF TypeOK, OpInv, RowInv, CatalogInv, DeleteSecret
    <3>3. StatusInv(c)'
      BY <1>1, <2>1, <2>2, Parts DEF TypeOK, OpInv, RowInv, StatusInv, DeleteSecret
    <3>4. SecretInv(c)'
      BY <1>1, <2>1, <2>2, Parts DEF TypeOK, OpInv, RowInv, StatusInv, SecretInv, DeleteSecret
    <3>5. PasswordInv(c)'
      BY <1>1, <2>1, <2>2, Parts DEF TypeOK, OpInv, RowInv, PasswordInv, DeleteSecret
    <3> QED
      BY <3>1, <3>2, <3>3, <3>4, <3>5 DEF ConnInv
  <2> QED
    BY <2>3, <2>4, <2>5 DEF IInv
<1>2. CASE ~Works
  <2>1. op' \in Calls /\ op' = Free /\ op'.pc = "free" /\ op'.kind = "none" /\ ~op'.wrote
    BY Released DEF DeleteSecret
  <2>2. Fails /\ astray' = astray \union {op.conn} /\ UNCHANGED <<keychain, runtime>>
    BY <1>2 DEF DeleteSecret
  <2>3. TypeOK'
    BY <1>2, <2>1, <2>2, Parts, Failing, ConnectionsAssumption DEF TypeOK, DeleteSecret
  <2>4. OpInv'
    BY <1>2, <2>1, <2>2, Parts DEF TypeOK, OpInv, RowInv, DeleteSecret
  <2>5. ASSUME NEW c \in Connection PROVE ConnInv(c)'
    BY <1>2, <2>1, <2>2, Parts DEF TypeOK, OpInv, ConnInv, RowInv, CatalogInv,
                   StatusInv, SecretInv, PasswordInv, DeleteSecret
  <2> QED
    BY <2>3, <2>4, <2>5 DEF IInv
<1> QED
  BY <1>1, <1>2 DEF DeleteSecret

LEMMA RestartStep ==
  ASSUME IInv, Restart
  PROVE  IInv'
<1>1. op' \in Calls /\ op' = Free /\ op'.pc = "free" /\ op'.kind = "none" /\ ~op'.wrote
  BY Released DEF Restart, Release
<1>2. TypeOK'
  BY <1>1, Parts, Failing, ConnectionsAssumption DEF TypeOK, Restart, Storing
<1>3. OpInv'
  BY <1>1, Parts DEF TypeOK, OpInv, RowInv, Restart, Storing
<1>4. ASSUME NEW c \in Connection PROVE ConnInv(c)'
  BY <1>1, Parts DEF TypeOK, OpInv, ConnInv, RowInv, CatalogInv,
                 StatusInv, SecretInv, PasswordInv, Restart, Storing
<1> QED
  BY <1>2, <1>3, <1>4 DEF IInv

-------------------------------------------------------------------------------
LEMMA Initially == Init => IInv
<1> SUFFICES ASSUME Init PROVE IInv
  OBVIOUS
<1>1. op = Free /\ op \in Calls /\ op.pc = "free" /\ op.kind = "none" /\ ~op.wrote
  BY ConnectionsAssumption DEF Init, Free, Calls
<1>2. TypeOK /\ OpInv
  BY <1>1, ConnectionsAssumption DEF Init, TypeOK, OpInv
<1>3. ASSUME NEW c \in Connection PROVE ConnInv(c)
  BY <1>1 DEF Init, ConnInv, RowInv, CatalogInv, StatusInv, SecretInv, PasswordInv
<1> QED
  BY <1>2, <1>3 DEF IInv

LEMMA Stutters == ASSUME IInv, UNCHANGED vars PROVE IInv'
<1>1. TypeOK' /\ OpInv'
  BY Parts DEF vars, TypeOK, OpInv
<1>2. ASSUME NEW c \in Connection PROVE ConnInv(c)'
  BY Parts DEF vars, ConnInv, RowInv, CatalogInv, StatusInv, SecretInv, PasswordInv
<1> QED
  BY <1>1, <1>2 DEF IInv

(* Every step of every caller keeps the invariant.                           *)
THEOREM Inductive == Spec => []IInv
<1>1. ASSUME IInv, [Next]_vars PROVE IInv'
  <2>1. ASSUME NEW d \in Connection, Creating(d) PROVE IInv'
    BY <1>1, <2>1, CreateSecretStep, CreateRowStep, CreateRowFailsStep, CreateStateStep
       DEF Creating
  <2>2. ASSUME NEW d \in Connection, NEW kind \in Kind, Call(kind, d) PROVE IInv'
    BY <1>1, <2>2, ReturnsAtOnceStep, BeginConnectStep, BeginDisconnectStep,
       BeginUpdateStep, BeginDeleteStep DEF Call
  <2>3. CASE Working
    <3>1. CASE ReadPassword \/ Attach \/ AttachFails \/ Connected
      BY <1>1, <3>1, ReadPasswordStep, AttachStep, AttachFailsStep, ConnectedStep
    <3>2. CASE Detach \/ DetachFails \/ Detached
      BY <1>1, <3>2, DetachStep, DetachFailsStep, DetachedStep
    <3>3. CASE UpdateRefused \/ KeepPassword \/ StorePassword \/ StorePasswordFails
      BY <1>1, <3>3, UpdateRefusedStep, KeepPasswordStep, StorePasswordStep,
         StorePasswordFailsStep
    <3>4. CASE UpdateRow \/ UpdateRowFails \/ Updated
      BY <1>1, <3>4, UpdateRowStep, UpdateRowFailsStep, UpdatedStep
    <3>5. CASE LookForSecret \/ DeleteRow \/ DeleteSecret
      BY <1>1, <3>5, LookForSecretStep, DeleteRowStep, DeleteSecretStep
    <3> QED
      BY <2>3, <3>1, <3>2, <3>3, <3>4, <3>5 DEF Working
  <2>4. ASSUME NEW d \in Connection, LinkToProject(d) \/ UnlinkFromProject(d) PROVE IInv'
    BY <1>1, <2>4, LinkToProjectStep, UnlinkFromProjectStep
  <2>5. ASSUME NEW d \in Connection, NEW kind \in Kind, Ask(kind, d) PROVE IInv'
    BY <1>1, <2>5, AskStep
  <2> QED
    BY <1>1, <2>1, <2>2, <2>3, <2>4, <2>5, RestartStep, Stutters DEF Next
<1> QED
  BY <1>1, Initially, PTL DEF Spec

(* The variables keep their types.                                           *)
THEOREM TypeCorrect == Spec => []TypeOK
<1>1. IInv => TypeOK
  BY DEF IInv
<1> QED
  BY <1>1, Inductive, PTL

(* The status of a connection tells whether it is attached, and what is      *)
(* attached is the configuration in its row: setRuntime of Connect,          *)
(* disconnectLocked and UpdateConnection, whoever calls and whatever fails.  *)
THEOREM AttachmentTrue == Spec => []AttachmentIsTrue
<1>1. IInv => StatusIsTrue
  <2> SUFFICES ASSUME IInv, NEW c \in Connection \ overwritten, op = Free
               PROVE  /\ runtime[c].status = "connected" => c \in attached
                      /\ runtime[c].status = "disconnected" => c \notin attached
                      /\ runtime[c].status # "connecting"
    BY DEF StatusIsTrue, Settled
  <2> QED
    BY Parts DEF OpInv, StatusInv
<1>2. IInv => AttachedIsCurrent
  BY Parts DEF AttachedIsCurrent, CatalogInv
<1> QED
  BY <1>1, <1>2, Inductive, PTL DEF AttachmentIsTrue

(* The password in the Keychain is the one of the row, a temporary secret    *)
(* has its catalog, and nothing is left of a connection that was deleted or  *)
(* never created (UpdateConnection, DeleteConnection, disconnectLocked).     *)
THEOREM CredentialsFollow == Spec => []CredentialsFollowRow
<1>1. IInv => PasswordMatchesRow
  <2> SUFFICES ASSUME IInv, NEW c \in Connection \ astray, row[c] # 0,
                      Settled \/ op.conn # c
               PROVE  keychain[c] = given[c]
    BY DEF PasswordMatchesRow
  <2>1. op.pc = "free" \/ op.conn # c
    BY Parts DEF OpInv, Settled
  <2> QED
    BY <2>1, Parts DEF RowInv, PasswordInv
<1>2. IInv => TrackedSecretsAreRemoved
  <2> SUFFICES ASSUME IInv, NEW c \in secrets \ overwritten, op = Free
               PROVE  c \in attached
    BY DEF TrackedSecretsAreRemoved, Settled
  <2> QED
    BY Parts DEF OpInv, TypeOK, SecretInv
<1>3. IInv => DeletedLeavesNothing
  <2> SUFFICES ASSUME IInv, NEW c \in Connection, row[c] = 0,
                      create[c] \in {"done", "failed"}, Settled \/ op.conn # c
               PROVE  /\ c \notin linked \union attached
                      /\ catalog[c] = 0
                      /\ c \in overwritten \/ c \notin secrets
                      /\ c \in astray \/ keychain[c] = 0
    BY DEF DeletedLeavesNothing
  <2>1. op.pc = "free" \/ op.conn # c
    BY Parts DEF OpInv, Settled
  <2>2. c \notin linked /\ c \notin attached /\ catalog[c] = 0 /\ given[c] = 0
    BY Parts DEF RowInv, CatalogInv
  <2>3. c \in overwritten \/ c \notin secrets
    BY <2>1, <2>2, Parts DEF SecretInv
  <2>4. c \in astray \/ keychain[c] = 0
    BY <2>1, <2>2, Parts DEF PasswordInv
  <2> QED
    BY <2>2, <2>3, <2>4
<1> QED
  BY <1>1, <1>2, <1>3, Inductive, PTL DEF CredentialsFollowRow
===============================================================================
