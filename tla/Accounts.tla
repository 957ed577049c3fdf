------------------------------ MODULE Accounts ------------------------------
(***************************************************************************)
(* Accounts and how a device gets into one (src/auth/auth.service.ts,      *)
(* src/admin/users/admin-users.service.ts): the users table, the codes     *)
(* sms:<phone> and the tokens refresh:<user> in Redis, on top of the       *)
(* identifiers each process draws for new rows (Snowflake, whose variables *)
(* this module shares).  An action is one database or Redis call with the  *)
(* code up to the next one; a call that only refuses changes nothing and   *)
(* is no action.                                                           *)
(*                                                                         *)
(* A refresh token is a JWT: what it says determines it, and it says the   *)
(* user, the phone and the second it was signed in.                        *)
(***************************************************************************)
EXTENDS Snowflake, FiniteSets

CONSTANTS
  Devices,
  Phones,
  PhonesOf,   \* PhonesOf[d]: the phones whose codes the user of d can read
  Slots,      \* requests that may be in flight at once
  ProcOf,     \* ProcOf[r]: the process that handles r
  Ops,        \* Ops[r]: what r may be
  Second,     \* milliseconds in a second, 1000 in the code
  MaxCodes,   \* bound: codes sent
  MaxReqs,    \* bound: requests begun, refreshes not counted
  NoOne       \* stands for a field a request has not set

Kinds == {"login", "refresh", "create", "update", "remove"}

ASSUME SlotsAssumption == ProcOf \in [Slots -> Procs] /\ Ops \in [Slots -> SUBSET Kinds]
ASSUME PhonesAssumption == PhonesOf \in [Devices -> SUBSET Phones] /\ NoOne \notin Phones
ASSUME SecondAssumption == Second \in Nat \ {0}

VARIABLES
  users,    \* rows: id, phone, and the number of the account (history)
  codes,    \* the live codes, with the number of the code (history)
  stored,   \* the tokens under refresh:<user>, at most one for a user
  held,     \* held[d]: the refresh token device d has, a set of at most one
  req,      \* req[r]: the handler of request r
  made,     \* accounts made so far
  sent,     \* codes sent so far
  begun,    \* requests begun so far, refreshes not counted
  entered,  \* <<d, n>>: d has logged in to account number n (history)
  used,     \* codes a login has been granted on (history)
  settled   \* settled[d]: see KeptIn (history)

dataVars == <<users, codes, stored, made, sent, used, entered>>
deviceVars == <<held, settled>>
accountsVars == <<vars, dataVars, deviceVars, req, begun>>

Tokens == [sub : Nat, phone : Phones, iat : Nat]

IdleReq == [pc |-> "idle", kind |-> "none", dev |-> NoOne, phone |-> NoOne,
            id |-> 0, token |-> NoOne, code |-> 0, overtaken |-> FALSE]

AccountsInit ==
  /\ Init
  /\ users = {} /\ codes = {} /\ stored = {}
  /\ made = 0 /\ sent = 0 /\ begun = 0
  /\ held = [d \in Devices |-> {}]
  /\ req = [r \in Slots |-> IdleReq]
  /\ entered = {} /\ used = {}
  /\ settled = [d \in Devices |-> FALSE]

At(r, pc) == req[r].pc = pc /\ ~waits[ProcOf[r]]
Begins(r, op) ==
  /\ At(r, "idle") /\ op \in Ops[r]
  /\ begun' = IF op = "refresh" THEN begun ELSE begun + 1
  /\ begun' <= MaxReqs
Goto(r, fields) == req' = [req EXCEPT ![r] = fields]
Finish(r) == Goto(r, IdleReq)
LastId(p) == ids'[p][Len(ids'[p])]
WithPhone(q) == {u \in users : u.phone = q}

-----------------------------------------------------------------------------
(* sendCode, and the five minutes a code has.  Every code reads '123456' as *)
(* yet: its number tells one sending from the next, for CodeOnce.           *)

SendCode(q) ==
  /\ sent < MaxCodes
  /\ codes' = {c \in codes : c.phone # q} \cup {[phone |-> q, no |-> sent + 1]}
  /\ sent' = sent + 1
  /\ UNCHANGED <<vars, deviceVars, req, users, stored, made, used, entered>>

ExpireCode(c) ==
  /\ codes' = codes \ {c}
  /\ UNCHANGED <<vars, deviceVars, req, users, stored, made, sent, used, entered>>

-----------------------------------------------------------------------------
(* login: get the code, drop it, find or create the user, issue tokens.     *)

BeginLogin(r, d, c) ==
  /\ Begins(r, "login") /\ c.phone \in PhonesOf[d]
  /\ Goto(r, [IdleReq EXCEPT !.pc = "del", !.kind = "login", !.dev = d,
                             !.phone = c.phone, !.code = c.no])
  /\ UNCHANGED <<vars, dataVars, deviceVars>>

\* Mutant: the code stays.
DelCodeNot(r) ==
  /\ At(r, "del")
  /\ Goto(r, [req[r] EXCEPT !.pc = "find"])
  /\ UNCHANGED <<vars, dataVars, deviceVars>>

DelCode(r) ==
  /\ At(r, "del")
  /\ codes' = {c \in codes : c.phone # req[r].phone}
  /\ Goto(r, [req[r] EXCEPT !.pc = "find"])
  /\ UNCHANGED <<vars, deviceVars, users, stored, made, sent, used, entered>>

\* issueTokens up to the call that stores the refresh token.
Signed(r, u) ==
  [req[r] EXCEPT !.pc = "set",
     !.token = [sub |-> u.id, phone |-> u.phone, iat |-> clock \div Second]]

\* The next row's id, which the process may have to wait for.
DrawId(r) ==
  /\ NextId(ProcOf[r])
  /\ \/ waits'[ProcOf[r]] /\ Goto(r, [req[r] EXCEPT !.pc = "wait"])
     \/ ~waits'[ProcOf[r]] /\ Goto(r, [req[r] EXCEPT !.pc = "insert",
                                                     !.id = LastId(ProcOf[r])])

FindUser(r) ==
  /\ At(r, "find")
  /\ \/ /\ WithPhone(req[r].phone) = {}
        /\ DrawId(r)
        /\ UNCHANGED entered
     \/ \E u \in WithPhone(req[r].phone) :
          /\ Goto(r, Signed(r, u))
          /\ entered' = entered \cup {<<req[r].dev, u.no>>}
          /\ UNCHANGED vars
  /\ UNCHANGED <<deviceVars, users, codes, stored, made, sent, used>>

EndDraw(r) ==
  /\ req[r].pc = "wait"
  /\ EndWait(ProcOf[r])
  /\ Goto(r, [req[r] EXCEPT !.pc = "insert", !.id = LastId(ProcOf[r])])
  /\ UNCHANGED <<dataVars, deviceVars>>

\* The insert of login and of an admin: the table lets no id and no phone in
\* twice, and the handler fails.
Taken(r) == \E u \in users : u.id = req[r].id \/ u.phone = req[r].phone

InsertUser(r) ==
  /\ At(r, "insert")
  /\ \/ Taken(r) /\ Finish(r) /\ UNCHANGED <<users, made, entered>>
     \/ /\ ~Taken(r)
        /\ made' = made + 1
        /\ LET u == [id |-> req[r].id, phone |-> req[r].phone, no |-> made + 1]
           IN  /\ users' = users \cup {u}
               /\ IF req[r].kind = "login"
                  THEN /\ Goto(r, Signed(r, u))
                       /\ entered' = entered \cup {<<req[r].dev, u.no>>}
                  ELSE Finish(r) /\ UNCHANGED entered
  /\ UNCHANGED <<vars, deviceVars, codes, stored, sent, used>>

-----------------------------------------------------------------------------
(* refresh: compare with the stored token, find the user, issue tokens.     *)

\* Mutant: the stored token is taken out when it is compared.
BeginRefreshDrops(r, d) ==
  /\ Begins(r, "refresh")
  /\ \E t \in held[d] \cap stored :
       /\ Goto(r, [IdleReq EXCEPT !.pc = "findById", !.kind = "refresh", !.dev = d,
                                  !.token = t])
       /\ stored' = stored \ {t}
  /\ UNCHANGED <<vars, deviceVars, users, codes, made, sent, used, entered>>

BeginRefresh(r, d) ==
  /\ Begins(r, "refresh")
  /\ \E t \in held[d] \cap stored :
       Goto(r, [IdleReq EXCEPT !.pc = "findById", !.kind = "refresh", !.dev = d,
                               !.token = t])
  /\ UNCHANGED <<vars, dataVars, deviceVars>>

\* Mutant: the account is found by the phone the token names.
FindByPhone(r) ==
  /\ At(r, "findById")
  /\ \/ WithPhone(req[r].token.phone) = {} /\ Finish(r)
     \/ \E u \in WithPhone(req[r].token.phone) : Goto(r, Signed(r, u))
  /\ UNCHANGED <<vars, dataVars, deviceVars>>

FindById(r) ==
  /\ At(r, "findById")
  /\ \/ (\A u \in users : u.id # req[r].token.sub) /\ Finish(r)
     \/ \E u \in users : u.id = req[r].token.sub /\ Goto(r, Signed(r, u))
  /\ UNCHANGED <<vars, dataVars, deviceVars>>

-----------------------------------------------------------------------------
(* issueTokens of both, the answer, and what may become of it.              *)

\* Whoever else has been or is about to be told of a token of this user is
\* told of one that is stored no more.
Displace(r, sub) ==
  /\ req' = [q \in Slots |->
       IF q = r THEN [req[q] EXCEPT !.pc = "answer"]
       ELSE IF req[q].pc = "answer" /\ req[q].token.sub = sub
       THEN [req[q] EXCEPT !.overtaken = TRUE] ELSE req[q]]
  /\ settled' = [d \in Devices |->
       settled[d] /\ (d = req[r].dev \/ \A t \in held[d] : t.sub # sub)]

\* Mutant: a user has a token for each time it was signed.
SetTokenBeside(r) ==
  /\ At(r, "set")
  /\ stored' = stored \cup {req[r].token}
  /\ used' = IF req[r].kind = "login" THEN used \cup {req[r].code} ELSE used
  /\ Displace(r, req[r].token.sub)
  /\ UNCHANGED <<vars, held, users, codes, made, sent, entered>>

SetToken(r) ==
  /\ At(r, "set")
  /\ stored' = {t \in stored : t.sub # req[r].token.sub} \cup {req[r].token}
  /\ used' = IF req[r].kind = "login" THEN used \cup {req[r].code} ELSE used
  /\ Displace(r, req[r].token.sub)
  /\ UNCHANGED <<vars, held, users, codes, made, sent, entered>>

Answer(r) ==
  /\ At(r, "answer")
  /\ held' = [held EXCEPT ![req[r].dev] = {req[r].token}]
  /\ settled' = [settled EXCEPT ![req[r].dev] = ~req[r].overtaken]
  /\ Finish(r)
  /\ UNCHANGED <<vars, dataVars>>

\* The handlers in rs end: a call fails, a connection or a process is lost.
End(rs) ==
  /\ req' = [r \in Slots |-> IF r \in rs THEN IdleReq ELSE req[r]]
  /\ settled' = [d \in Devices |->
       settled[d] /\ \A r \in rs : ~(req[r].pc = "answer" /\ req[r].dev = d)]
  /\ UNCHANGED <<dataVars, held>>

Abort(r) == req[r].pc \notin {"idle", "wait"} /\ End({r}) /\ UNCHANGED vars

RestartProcess(p) == Restart(p) /\ End({r \in Slots : ProcOf[r] = p})

\* The 180 days of a token are over, or Redis has evicted it.
ExpireToken(t) ==
  /\ stored' = stored \ {t}
  /\ settled' = [d \in Devices |-> settled[d] /\ t \notin held[d]]
  /\ req' = [r \in Slots |->
       IF req[r].pc = "answer" /\ req[r].token = t
       THEN [req[r] EXCEPT !.overtaken = TRUE] ELSE req[r]]
  /\ UNCHANGED <<vars, held, users, codes, made, sent, used, entered>>

-----------------------------------------------------------------------------
(* An admin creates, changes and removes users.                             *)

BeginCreate(r, q) ==
  /\ Begins(r, "create") /\ WithPhone(q) = {}
  /\ NextId(ProcOf[r])
  /\ LET new == [IdleReq EXCEPT !.kind = "create", !.phone = q]
     IN  \/ waits'[ProcOf[r]] /\ Goto(r, [new EXCEPT !.pc = "wait"])
         \/ ~waits'[ProcOf[r]] /\ Goto(r, [new EXCEPT !.pc = "insert",
                                                        !.id = LastId(ProcOf[r])])
  /\ UNCHANGED <<dataVars, deviceVars>>

\* The phone is looked up if it differs from the one just read.
BeginUpdate(r, u, q) ==
  /\ Begins(r, "update")
  /\ Goto(r, [IdleReq EXCEPT !.pc = IF q = u.phone THEN "update" ELSE "clash",
                             !.kind = "update", !.id = u.id, !.phone = q])
  /\ UNCHANGED <<vars, dataVars, deviceVars>>

CheckClash(r) ==
  /\ At(r, "clash")
  /\ \/ WithPhone(req[r].phone) # {} /\ Finish(r)
     \/ WithPhone(req[r].phone) = {} /\ Goto(r, [req[r] EXCEPT !.pc = "update"])
  /\ UNCHANGED <<vars, dataVars, deviceVars>>

\* The table refuses the phone of another row; a row that is gone fails too.
UpdateUser(r) ==
  /\ At(r, "update")
  /\ users' = IF \E u \in users : u.id # req[r].id /\ u.phone = req[r].phone THEN users
              ELSE {IF u.id = req[r].id THEN [u EXCEPT !.phone = req[r].phone] ELSE u : u \in users}
  /\ Finish(r)
  /\ UNCHANGED <<vars, deviceVars, codes, stored, made, sent, used, entered>>

BeginRemove(r, u) ==
  /\ Begins(r, "remove")
  /\ Goto(r, [IdleReq EXCEPT !.pc = "delete", !.kind = "remove", !.id = u.id])
  /\ UNCHANGED <<vars, dataVars, deviceVars>>

DeleteUser(r) ==
  /\ At(r, "delete")
  /\ users' = {u \in users : u.id # req[r].id}
  /\ Finish(r)
  /\ UNCHANGED <<vars, deviceVars, codes, stored, made, sent, used, entered>>

-----------------------------------------------------------------------------
Begin(r) ==
  \/ \E d \in Devices : BeginRefresh(r, d) \/ \E c \in codes : BeginLogin(r, d, c)
  \/ \E q \in Phones : BeginCreate(r, q) \/ \E u \in users : BeginUpdate(r, u, q)
  \/ \E u \in users : BeginRemove(r, u)

Handler(r) ==
  \/ DelCode(r) \/ FindUser(r) \/ EndDraw(r) \/ InsertUser(r) \/ FindById(r)
  \/ SetToken(r) \/ Answer(r) \/ Abort(r)
  \/ CheckClash(r) \/ UpdateUser(r) \/ DeleteUser(r)

Environment ==
  \/ \E q \in UNION {PhonesOf[d] : d \in Devices} : SendCode(q)
  \/ \E c \in codes : ExpireCode(c)
  \/ \E t \in stored : ExpireToken(t)
  \/ \E p \in Procs : RestartProcess(p)
  \/ (Tick \/ StepBack) /\ UNCHANGED <<dataVars, deviceVars, req>>

AccountsNext ==
  \/ \E r \in Slots : Begin(r)
  \/ (\E r \in Slots : Handler(r)) /\ UNCHANGED begun
  \/ Environment /\ UNCHANGED begun

AccountsSpec == AccountsInit /\ [][AccountsNext]_accountsVars

-----------------------------------------------------------------------------
(* Properties.                                                              *)

\* The fields of a request when n codes have been sent.
Requests(n) ==
  [pc : {"idle", "del", "find", "wait", "insert", "findById", "set", "answer",
         "clash", "update", "delete"},
   kind : Kinds \cup {"none"},
   dev : Devices \cup {NoOne}, phone : Phones \cup {NoOne}, id : Nat,
   token : Tokens \cup {NoOne}, code : 0..n, overtaken : BOOLEAN]

\* Requests keep to their fields, and Redis has one token for a user.
AccountsTypeOK ==
  /\ users \subseteq [id : Nat, phone : Phones, no : 1..made]
  /\ codes \subseteq [phone : Phones, no : 1..sent]
  /\ stored \subseteq Tokens /\ \A s, t \in stored : s.sub = t.sub => s = t
  /\ held \in [Devices -> SUBSET Tokens]
  /\ made \in Nat /\ sent \in Nat
  /\ entered \subseteq Devices \X (1..made) /\ used \subseteq 1..sent
  /\ settled \in [Devices -> BOOLEAN]
  /\ req \in [Slots -> Requests(sent)]

\* An identifier that has been returned twice, by one process or by two: only
\* after the clock was set back, or between processes with one worker id.
Repeated(n) ==
  \E p, q \in Procs : \E i \in 1..Len(ids[p]), k \in 1..Len(ids[q]) :
    <<p, i>> # <<q, k>> /\ ids[p][i] = n /\ ids[q][k] = n

\* A device whose refresh is accepted has itself logged in to the account it
\* gets into, not to one that had the phone before; nor to one that had the
\* id, unless the identifier of the account had been returned before.
NoStranger ==
  \A d \in Devices, u \in users :
    (\E t \in held[d] \cap stored : t.sub = u.id)
      => <<d, u.no>> \in entered \/ Repeated(u.id)

\* A code on which a login was granted is gone: only logins that overlap can
\* both be granted on it.
CodeOnce == \A c \in codes : c.no \notin used

\* A device stays in: its refresh token is the stored one as long as nobody
\* else was let into the account, no answer to it was lost or overtaken by
\* another grant, and the token has not expired.  A refresh that fails before
\* its answer costs nothing.
KeptIn ==
  \A d \in Devices :
    settled[d] /\ (\A r \in Slots : ~(req[r].pc = "answer" /\ req[r].dev = d))
      => held[d] # {} /\ held[d] \subseteq stored

=============================================================================
