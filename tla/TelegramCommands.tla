---------------------------- MODULE TelegramCommands ----------------------------
(***************************************************************************)
(* What a Telegram message does: the chat bindings of bindingService.ts,   *)
(* the two-step control flow with its one-use confirmations                *)
(* (commandBridge.ts, confirmations.ts), and the lanes that answer settled *)
(* commands (repliesLane.ts).  The messages arrive as UpdateFeed promises, *)
(* in order and each once.  The executor that settles the commands is      *)
(* ExecutorBridge; here it is environment.                                 *)
(*                                                                         *)
(* An update is handled inside a database transaction whose reads of       *)
(* bindings and users take no lock.  A revocation, a change of role or a   *)
(* lapse that comes between such a read and the commit reads nothing that  *)
(* the update writes, so the outcome is that of the update handled first.  *)
(***************************************************************************)
EXTENDS FiniteSets, Sequences, TelegramUpdates

CONSTANTS
    Lanes,           \* replies lanes, one in each notification worker process
    Owners, Chats, Codes,
    FirstOwner, FirstChat,   \* the owner bound at the start, and her chat
    OUTSTANDING,     \* TELEGRAM_CONFIRMATION_MAX_OUTSTANDING
    Changing,        \* bound: the owners whose authorization changes, and
    MaxAuth,         \*   how high its revision gets
    None             \* no owner, no chat, no row

ASSUME CommandsAssumption ==
    /\ FirstOwner \in Owners /\ FirstChat \in Chats
    /\ None \notin Owners \union Chats
    /\ {OUTSTANDING, MaxUpdates, MaxAuth} \subseteq Nat \ {0}

VARIABLES
    inbox,      \* the chats of the messages handled; an update's id is its place
    code,       \* the owner a binding code stands for, until it is consumed
    binding,    \* notification_bindings
    conf,       \* telegram_confirmations
    command,    \* the executor command of an update, with its reply row
    user,       \* each owner's status and authorization revision
    lane,       \* each replies lane: the row it is settling or sending
    sent        \* the answers Telegram accepted for each command, as chats

vars == <<inbox, code, binding, conf, command, user, lane, sent>>

(* A binding is named after the update that made it, 0 being the first; a  *)
(* command after the update that queued it, which is its idempotency key;  *)
(* a confirmation after the command whose answer carried its token.        *)
Unbound == [state |-> "none", owner |-> None, chat |-> None]
NotIssued == [state |-> "none", binding |-> 0, auth |-> 0]
NoCommand == [state |-> "none", kind |-> "none", binding |-> 0, auth |-> 0, conf |-> 0,
              replied |-> FALSE]
NoRow == [at |-> "idle", command |-> 0, timedOut |-> FALSE]

Init ==
    /\ inbox = <<>>
    /\ code = [k \in Codes |-> None]
    /\ binding = [b \in 0 .. MaxUpdates |->
            IF b = 0 THEN [state |-> "active", owner |-> FirstOwner, chat |-> FirstChat] ELSE Unbound]
    /\ conf = [u \in Updates |-> NotIssued] /\ command = [u \in Updates |-> NoCommand]
    /\ user = [o \in Owners |-> [active |-> TRUE, auth |-> 1]]
    /\ lane = [l \in Lanes |-> NoRow] /\ sent = [u \in Updates |-> <<>>]

-----------------------------------------------------------------------------
(* Around the chat.                                                        *)

\* createBindingCode.  A code that has expired is a message without effect.
CreateCode(o, k) ==
    /\ code[k] = None
    /\ code' = [code EXCEPT ![k] = o]
    /\ UNCHANGED <<inbox, binding, conf, command, user, lane, sent>>

\* revokeBinding; a binding keeps revision 1, so its status is the fence.
RevokeBinding(b) ==
    /\ binding[b].state = "active"
    /\ binding' = [binding EXCEPT ![b].state = "revoked"]
    /\ UNCHANGED <<inbox, code, conf, command, user, lane, sent>>

\* An administrator suspends or restores the owner, or changes a role.
ChangeUser(o) ==
    /\ o \in Changing /\ user[o].auth < MaxAuth
    /\ \E active \in BOOLEAN :
         user' = [user EXCEPT ![o] = [active |-> active, auth |-> user[o].auth + 1]]
    /\ UNCHANGED <<inbox, code, binding, conf, command, lane, sent>>

\* Two minutes: a confirmation may run out unused.
Lapse(t) ==
    /\ conf[t].state = "open"
    /\ conf' = [conf EXCEPT ![t].state = "lapsed"]
    /\ UNCHANGED <<inbox, code, binding, command, user, lane, sent>>

\* The executor settles a command, in its own time.
Execute(u) ==
    /\ command[u].state = "queued"
    /\ \E s \in {"applied", "rejected"} : command' = [command EXCEPT ![u].state = s]
    /\ UNCHANGED <<inbox, code, binding, conf, user, lane, sent>>

-----------------------------------------------------------------------------
(* One update inside the batch transaction.                                *)

Now == Len(inbox) + 1

OwnerOf(b) == binding[b].owner
Auth(b) == user[OwnerOf(b)].auth

\* resolveTelegramCommandContext: exactly one active binding, its owner active.
Resolves(b, chat) ==
    /\ {a \in DOMAIN binding : binding[a].state = "active" /\ binding[a].chat = chat} = {b}
    /\ user[OwnerOf(b)].active

\* enqueueDurableCommand, with the reply row.
Queue(b, kind, token) ==
    command' = [command EXCEPT ![Now] = [state |-> "queued", kind |-> kind, binding |-> b,
                                         auth |-> Auth(b), conf |-> token, replied |-> FALSE]]

Handled(chat) ==
    /\ Len(inbox) < MaxUpdates
    /\ inbox' = Append(inbox, chat)
    /\ UNCHANGED <<user, lane, sent>>

(* consumeBindingCode: the new binding takes the place of every active one  *)
(* of the owner.                                                            *)
Replaces(b, o) == binding[b].owner = o /\ binding[b].state = "active"

Bind(chat, k) ==
    /\ code[k] \in Owners
    /\ Handled(chat)
    /\ code' = [code EXCEPT ![k] = "used"]
    /\ binding' = [b \in DOMAIN binding |->
            IF b = Now THEN [state |-> "active", owner |-> code[k], chat |-> chat]
            ELSE IF Replaces(b, code[k]) THEN [binding[b] EXCEPT !.state = "revoked"]
            ELSE binding[b]]
    /\ UNCHANGED <<conf, command>>

\* Step 1 of a control, and every read command: a snapshot for the replies lane.
Ask(chat) ==
    /\ Handled(chat)
    /\ \E b \in DOMAIN binding : Resolves(b, chat) /\ Queue(b, "control", 0)
    /\ UNCHANGED <<code, binding, conf>>

(* consumeTelegramConfirmation: what the token was issued under must still  *)
(* hold.  Mutants: a used token is found again; the current authorization   *)
(* is not compared.                                                         *)
ConsumesAgain(t, b) == conf[t].state \in {"open", "used"} /\ conf[t].binding = b /\ conf[t].auth = Auth(b)
ConsumesStale(t, b) == conf[t].state = "open" /\ conf[t].binding = b

Consumes(t, b) == conf[t] = [state |-> "open", binding |-> b, auth |-> Auth(b)]

\* confirmAction: at capacity the token is consumed and there is no command.
Confirm(chat, t) ==
    /\ Handled(chat)
    /\ \E b \in DOMAIN binding :
        /\ Resolves(b, chat) /\ Consumes(t, b)
        /\ conf' = [conf EXCEPT ![t].state = "used"]
        /\ Queue(b, "action", t) \/ UNCHANGED command
    /\ UNCHANGED <<code, binding>>

\* Help, a group, a message over its rate limit, from an unbound or ambiguous
\* chat, with a wrong code or token: recorded, and answered with a fixed text.
Ignore ==
    /\ Handled(None)
    /\ UNCHANGED <<code, binding, conf, command>>

-----------------------------------------------------------------------------
(* The replies lane.                                                       *)

\* An unanswered row whose command is settled or, by then, ten minutes old.
PickRow(l, u) ==
    /\ lane[l] = NoRow
    /\ command[u].state # "none" /\ ~command[u].replied
    /\ lane' = [lane EXCEPT ![l] = [at |-> "settle", command |-> u,
                                    timedOut |-> command[u].state = "queued"]]
    /\ UNCHANGED <<inbox, code, binding, conf, command, user, sent>>

\* loadSendContext: the binding is still active, and so is its owner.
MaySend(u) == LET b == command[u].binding IN binding[b].state = "active" /\ user[OwnerOf(b)].active

Outstanding(o) == {t \in Updates : conf[t].state = "open" /\ OwnerOf(conf[t].binding) = o}

(* issueTelegramConfirmation under the owner's row lock: the quota is exact. *)
(* Mutant: it is not looked at.                                             *)
MayIssueMore(u) == command[u].kind = "control" /\ command[u].state = "applied"

MayIssue(u) ==
    /\ command[u].kind = "control" /\ command[u].state = "applied"
    /\ Cardinality(Outstanding(OwnerOf(command[u].binding))) < OUTSTANDING

Issue(u) ==
    conf' = [conf EXCEPT ![u] = [state |-> "open", binding |-> command[u].binding,
                                 auth |-> Auth(command[u].binding)]]

(* markReplied wins the row only while it is unanswered.  Mutant: it is     *)
(* marked again.                                                            *)
WinsAgain(u) == TRUE

Wins(u) == ~command[u].replied

Leave(l) == lane' = [lane EXCEPT ![l] = NoRow]
Mark(u) == command' = [command EXCEPT ![u].replied = TRUE]

\* settleAndSend with no recipient left: answered, without a message.
Suppress(l) ==
    /\ lane[l].at = "settle" /\ ~MaySend(lane[l].command)
    /\ Mark(lane[l].command) /\ Leave(l)
    /\ UNCHANGED <<inbox, code, binding, conf, user, sent>>

\* settleAndSend commits before anything is sent; the answer to a control may
\* carry a token, when the snapshot names the robot.
SettleRow(l) ==
    LET u == lane[l].command IN
    /\ lane[l].at = "settle" /\ MaySend(u) /\ Wins(u)
    /\ Mark(u)
    /\ \/ UNCHANGED conf
       \/ ~lane[l].timedOut /\ MayIssue(u) /\ Issue(u)
    /\ lane' = [lane EXCEPT ![l].at = "send"]
    /\ UNCHANGED <<inbox, code, binding, user, sent>>

\* Another lane won the row, the send allowance is spent, a statement fails or
\* the process dies; or it dies before it has sent.
DropRow(l) ==
    /\ lane[l] # NoRow
    /\ Leave(l)
    /\ UNCHANGED <<inbox, code, binding, conf, command, user, sent>>

\* sendMessage, once: what is lost is not repeated.
SendRow(l) ==
    LET u == lane[l].command IN
    /\ lane[l].at = "send"
    /\ sent' = [sent EXCEPT ![u] = Append(sent[u], binding[command[u].binding].chat)]
    /\ Leave(l)
    /\ UNCHANGED <<inbox, code, binding, conf, command, user>>

Next ==
    \/ \E o \in Owners : ChangeUser(o) \/ \E k \in Codes : CreateCode(o, k)
    \/ \E b \in DOMAIN binding : RevokeBinding(b)
    \/ \E u \in Updates : Lapse(u) \/ Execute(u)
    \/ Ignore
    \/ \E c \in Chats :
        \/ Ask(c)
        \/ \E k \in Codes : Bind(c, k)
        \/ \E t \in Updates : Confirm(c, t)
    \/ \E l \in Lanes :
        \/ Suppress(l) \/ SettleRow(l) \/ DropRow(l) \/ SendRow(l)
        \/ \E u \in Updates : PickRow(l, u)

Spec == Init /\ [][Next]_vars

-----------------------------------------------------------------------------
(* Every variable keeps its type, and an owner her quota of open tokens.    *)
CommandsTypeOK ==
    /\ \A o \in Owners : Cardinality(Outstanding(o)) <= OUTSTANDING
    /\ inbox \in Seq(Chats \union {None}) /\ Len(inbox) <= MaxUpdates
    /\ code \in [Codes -> Owners \union {None, "used"}]
    /\ binding \in [0 .. MaxUpdates -> [state : {"none", "active", "revoked"},
                                        owner : Owners \union {None}, chat : Chats \union {None}]]
    /\ conf \in [Updates -> [state : {"none", "open", "used", "lapsed"},
                             binding : 0 .. MaxUpdates, auth : 0 .. MaxAuth]]
    /\ command \in [Updates -> [state : {"none", "queued", "applied", "rejected"},
                                kind : {"none", "control", "action"}, binding : 0 .. MaxUpdates,
                                auth : 0 .. MaxAuth, conf : 0 .. MaxUpdates, replied : BOOLEAN]]
    /\ user \in [Owners -> [active : BOOLEAN, auth : 1 .. MaxAuth]]
    /\ lane \in [Lanes -> [at : {"idle", "settle", "send"}, command : 0 .. MaxUpdates,
                           timedOut : BOOLEAN]]
    /\ sent \in [Updates -> Seq(Chats)]

(* A confirmation queues at most one action, however often the chat repeats *)
(* it and whatever becomes of the lanes.                                    *)
OneActionPerConfirmation ==
    \A u, v \in Updates :
        command[u].kind = "action" /\ command[v].kind = "action" /\ command[u].conf = command[v].conf
            => u = v

(* An action was asked for, answered and confirmed in one chat and through  *)
(* one binding, and the authorization of its owner when the token was       *)
(* issued is that of the confirmation: a token does not outlive a rebinding *)
(* or a change of role, and works in no other chat.                         *)
ConfirmedWhereAsked ==
    \A u \in Updates : command[u].kind = "action" =>
        LET t == command[u].conf IN
        /\ command[t].kind = "control" /\ command[t].state = "applied" /\ command[t].replied
        /\ inbox[t] = inbox[u]
        /\ command[t].binding = command[u].binding
        /\ conf[t].auth = command[u].auth

(* However many lanes pick a command's row, and whatever happened to the    *)
(* binding since, Telegram gets at most one answer to it, in the chat that  *)
(* asked.                                                                   *)
AnsweredOnceWhereAsked ==
    \A u \in Updates : sent[u] # <<>> => sent[u] = <<inbox[u]>>
=============================================================================
