------------------------------- MODULE UpdateFeed -------------------------------
(***************************************************************************)
(* What the Telegram ingress promises the command bridge: the updates of   *)
(* one bot take effect in order and each of them once, whatever becomes of *)
(* the processes that poll for them.  TelegramIngress implements this      *)
(* feed; TelegramCommands takes its messages from it.                      *)
(***************************************************************************)
EXTENDS TelegramUpdates

VARIABLES
    written,   \* updates the chats have sent so far
    times      \* how often each update has taken effect

First(n) == [u \in Updates |-> IF u <= n THEN 1 ELSE 0]

FeedInit == written = 0 /\ times = First(0)

WriteUpdate == written < MaxUpdates /\ written' = written + 1 /\ UNCHANGED times

\* A batch takes effect: some number of the next updates, at once.
SettleNext ==
    /\ \E n \in 1 .. written : times[n] = 0 /\ times' = First(n)
    /\ UNCHANGED written

FeedSpec == FeedInit /\ [][WriteUpdate \/ SettleNext]_<<written, times>>
=============================================================================
