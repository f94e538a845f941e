--------------------------- MODULE GatewaySession ---------------------------
(***************************************************************************)
(* The sessions of the gateway (gwcore: session.go, gwcore.go): the table  *)
(* of sessions, the indexes by account and by player that pushes are       *)
(* routed with, kicks, and the events about a client's coming and going.   *)
(* Replies of the logic server, the end of a connection and control        *)
(* messages run in goroutines of their own and take one lock at a time.    *)
(***************************************************************************)
EXTENDS Naturals, Sequences, FiniteSets, SequencesExt

CONSTANTS
    Conns, Owners, Players,
    None,       \* no owner, no player, an empty slot
    MaxLogins,  \* bound: login replies
    MaxCommands \* bound: control messages

GatewaySessionParams ==
    /\ None \notin Conns \cup Owners \cup Players
    /\ MaxLogins \in Nat /\ MaxCommands \in Nat

VARIABLES
    calm,       \* no kick by control message, one owner per connection, no
                \* connection ends while a reply or a command is about it, no
                \* third one logs in to an account that two have or are getting
    open,       \* connections that are not closed
    sess,       \* the table of sessions
    made,       \* sessions made for a connection so far
    bound,      \* the account a connection is bound to (bc.PlayerID)
    idx, pidx,  \* the indexes by account and by player
    ownerOf,    \* connOwner
    extra,      \* the player of a session (extraIDs)
    kicked,
    reply,      \* login reply being handled: its step and its account
    targets,    \* sessions that reply will kick
    clean, uid, \* cleanup: its step, and the account it has read
    ctl,        \* control message being handled: its step, connection, player
    hard,       \* pending hard disconnects: the account, or None
    announced, cancelled, gone,  \* events about a connection
    stuck, stuckBind,   \* shards of idx and sessions whose lock is never released
    logins, commands

index  == <<bound, idx, pidx, ownerOf, extra>>
events == <<hard, announced, cancelled, gone>>
panics == <<stuck, stuckBind>>
vars   == <<calm, open, sess, made, index, kicked, reply, targets, clean, uid, ctl, events,
            panics, logins, commands>>

Idle == [step |-> "idle", conn |-> None, player |-> None]

Init ==
    /\ calm \in BOOLEAN
    /\ open = Conns /\ sess = {} /\ made = [c \in Conns |-> 0]
    /\ bound = [c \in Conns |-> None] /\ ownerOf = bound /\ extra = bound
    /\ idx = [o \in Owners |-> <<>>] /\ pidx = [p \in Players |-> <<>>]
    /\ kicked = [c \in Conns |-> FALSE]
    /\ reply = [c \in Conns |-> [step |-> "idle", owner |-> None]]
    /\ targets = [c \in Conns |-> {}]
    /\ clean = [c \in Conns |-> "idle"] /\ uid = bound /\ hard = bound
    /\ ctl = Idle
    /\ announced = kicked /\ cancelled = kicked /\ gone = made
    /\ stuck = {} /\ stuckBind = {} /\ logins = 0 /\ commands = 0

Without(seq, c) == RemoveFirst(seq, c)

MayEnd(set) == calm => \A c \in set : reply[c].step = "idle" /\ ctl.conn # c

(* How Kick and a change of owner take c out: the slot behind the shortened *)
(* slice's end is meant, the last one in it is written.                     *)
OnlyEntry(o, c) == idx[o] = <<c>>
Cut(seq, c) == LET rest == Without(seq, c) IN [rest EXCEPT ![Len(rest)] = None]
Listed(o, c) == c \in ToSet(idx[o])

-----------------------------------------------------------------------------
(* createSession, and the end of a connection *)

Create(c) ==
    /\ c \in open \ sess /\ clean[c] = "idle" /\ made[c] < 2
    /\ sess' = sess \cup {c} /\ made' = [made EXCEPT ![c] = @ + 1]
    /\ bound' = [bound EXCEPT ![c] = None] /\ extra' = [extra EXCEPT ![c] = None]
    /\ kicked' = [kicked EXCEPT ![c] = FALSE]
    /\ UNCHANGED <<calm, open, idx, pidx, ownerOf, reply, targets, clean, uid, ctl, events, panics, logins, commands>>

ClientCloses(c) ==
    /\ c \in open /\ MayEnd({c})
    /\ open' = open \ {c}
    /\ UNCHANGED <<calm, sess, made, index, kicked, reply, targets, clean, uid, ctl, events, panics, logins, commands>>

(* Mutation: cleanup goes on although the session has left the table. *)
CleanBeginAlways(c) ==
    /\ made[c] > 0 /\ c \notin open /\ clean[c] = "idle"
    /\ sess' = sess \ {c} /\ uid' = [uid EXCEPT ![c] = bound[c]]
    /\ clean' = [clean EXCEPT ![c] = "index"]
    /\ UNCHANGED <<calm, open, made, index, kicked, reply, targets, ctl, events, panics, logins, commands>>

CleanBegin(c) ==
    /\ c \in sess \ open /\ clean[c] = "idle"
    /\ sess' = sess \ {c} /\ uid' = [uid EXCEPT ![c] = bound[c]]
    /\ clean' = [clean EXCEPT ![c] = "index"]
    /\ UNCHANGED <<calm, open, made, index, kicked, reply, targets, ctl, events, panics, logins, commands>>

CleanIndex(c) ==
    /\ clean[c] = "index" /\ uid[c] \notin stuck
    /\ idx' = IF uid[c] # None THEN [idx EXCEPT ![uid[c]] = Without(@, c)] ELSE idx
    /\ clean' = [clean EXCEPT ![c] = "extras"]
    /\ UNCHANGED <<calm, open, sess, made, bound, pidx, ownerOf, extra, kicked, reply, targets, uid, ctl, events, panics, logins, commands>>

(* Mutation: the index by player is left alone. *)
CleanExtrasNot(c) ==
    /\ clean[c] = "extras" /\ c \notin stuckBind
    /\ extra' = [extra EXCEPT ![c] = None] /\ ownerOf' = [ownerOf EXCEPT ![c] = None]
    /\ clean' = [clean EXCEPT ![c] = "tell"]
    /\ UNCHANGED <<calm, open, sess, made, bound, idx, pidx, kicked, reply, targets, uid, ctl, events, panics, logins, commands>>

(* removeExtraIDs, delOwnerOf, revokeSessionUDP *)
CleanExtras(c) ==
    /\ clean[c] = "extras" /\ c \notin stuckBind
    /\ pidx' = IF extra[c] # None THEN [pidx EXCEPT ![extra[c]] = Without(@, c)] ELSE pidx
    /\ extra' = [extra EXCEPT ![c] = None] /\ ownerOf' = [ownerOf EXCEPT ![c] = None]
    /\ clean' = [clean EXCEPT ![c] = "tell"]
    /\ UNCHANGED <<calm, open, sess, made, bound, idx, kicked, reply, targets, uid, ctl, events, panics, logins, commands>>

(* A kicked session is not announced as gone; another one becomes a soft    *)
(* disconnect now and a hard one later (scheduleHardDisconnect).            *)
CleanTell(c) ==
    /\ clean[c] = "tell"
    /\ hard' = IF kicked[c] \/ hard[c] # None THEN hard ELSE [hard EXCEPT ![c] = uid[c]]
    /\ clean' = [clean EXCEPT ![c] = "idle"]
    /\ UNCHANGED <<calm, open, sess, made, index, kicked, reply, targets, uid, ctl, announced, cancelled, gone, panics, logins, commands>>

HardFires(c) ==
    /\ hard[c] # None
    /\ hard' = [hard EXCEPT ![c] = None] /\ gone' = [gone EXCEPT ![c] = @ + 1]
    /\ UNCHANGED <<calm, open, sess, made, index, kicked, reply, targets, clean, uid, ctl, announced, cancelled, panics, logins, commands>>

-----------------------------------------------------------------------------
(* A login reply (makeUpstreamHandler).  The session is looked up first.    *)

Contenders(o) ==
    {c \in Conns : \/ bound[c] = o /\ (c \in sess \/ clean[c] = "index")
                   \/ reply[c] = [step |-> "bind", owner |-> o]}

ReplyLookup(c, o) ==
    /\ c \in sess \cap open /\ reply[c].step = "idle" /\ logins < MaxLogins
    /\ (calm => bound[c] \in {None, o} /\ \A d, e \in Contenders(o) \ {c} : d = e)
    /\ reply' = [reply EXCEPT ![c] = [step |-> "bind", owner |-> o]]
    /\ logins' = logins + 1
    /\ UNCHANGED <<calm, open, sess, made, index, kicked, targets, clean, uid, ctl, events, panics, commands>>

ReplyKnown(c) ==
    /\ reply[c].step = "bind" /\ bound[c] = reply[c].owner /\ c \notin stuckBind
    /\ reply' = [reply EXCEPT ![c].step = "idle"]
    /\ UNCHANGED <<calm, open, sess, made, index, kicked, targets, clean, uid, ctl, events, panics, logins, commands>>

(* The panic leaves the lock of the shard and that of the session behind.   *)
ReplyPanics(c) ==
    /\ reply[c].step = "bind" /\ bound[c] \notin {None, reply[c].owner}
    /\ c \notin stuckBind /\ bound[c] \notin stuck /\ OnlyEntry(bound[c], c)
    /\ stuck' = stuck \cup {bound[c]} /\ stuckBind' = stuckBind \cup {c}
    /\ reply' = [reply EXCEPT ![c].step = "idle"]
    /\ UNCHANGED <<calm, open, sess, made, index, kicked, targets, clean, uid, ctl, events, logins, commands>>

(* KickOldest: the first of the others *)
Oldest(o, c) ==
    LET others == {i \in DOMAIN idx[o] : idx[o][i] \notin {None, c}} IN
    {idx[o][i] : i \in {i \in others : \A j \in others : i <= j}}

(* Mutation: the sessions to kick are taken after this one is listed, by position alone. *)
ReplyBindNoKick(c) ==
    LET o == reply[c].owner  old == bound[c] IN
    /\ reply[c].step = "bind" /\ old # o /\ c \notin stuckBind /\ o \notin stuck
    /\ old # None => old \notin stuck /\ ~OnlyEntry(old, c)
    /\ bound' = [bound EXCEPT ![c] = o] /\ ownerOf' = [ownerOf EXCEPT ![c] = o]
    /\ idx' = [p \in Owners |-> IF p = o THEN Append(idx[o], c)
                                ELSE IF p = old /\ Listed(old, c) THEN Cut(idx[p], c) ELSE idx[p]]
    /\ targets' = [targets EXCEPT ![c] = {}]
    /\ reply' = [reply EXCEPT ![c].step = "kick"]
    /\ UNCHANGED <<calm, open, sess, made, pidx, extra, kicked, clean, uid, ctl, events, panics, logins, commands>>

(* Out of the list of the old account, into that of the new one, whose      *)
(* oldest other session is to be kicked.                                    *)
ReplyBind(c) ==
    LET o == reply[c].owner  old == bound[c] IN
    /\ reply[c].step = "bind" /\ old # o /\ c \notin stuckBind /\ o \notin stuck
    /\ old # None => old \notin stuck /\ ~OnlyEntry(old, c)
    /\ bound' = [bound EXCEPT ![c] = o] /\ ownerOf' = [ownerOf EXCEPT ![c] = o]
    /\ idx' = [p \in Owners |-> IF p = o THEN Append(idx[o], c)
                                ELSE IF p = old /\ Listed(old, c) THEN Cut(idx[p], c) ELSE idx[p]]
    /\ targets' = [targets EXCEPT ![c] = Oldest(o, c)]
    /\ reply' = [reply EXCEPT ![c].step = "kick"]
    /\ UNCHANGED <<calm, open, sess, made, pidx, extra, kicked, clean, uid, ctl, events, panics, logins, commands>>

(* kick: marked, then closed *)
Kicked(set) ==
    /\ kicked' = [c \in Conns |-> kicked[c] \/ c \in set] /\ open' = open \ set

ReplyKick(c) ==
    /\ reply[c].step = "kick" /\ MayEnd(targets[c])
    /\ Kicked(targets[c]) /\ targets' = [targets EXCEPT ![c] = {}]
    /\ reply' = [reply EXCEPT ![c].step = "tell"]
    /\ UNCHANGED <<calm, sess, made, index, clean, uid, ctl, events, panics, logins, commands>>

(* cancelHardDisconnectByUID and OnConnect *)
ReplyTell(c) ==
    LET back == {d \in Conns : hard[d] = reply[c].owner} IN
    /\ reply[c].step = "tell"
    /\ hard' = [d \in Conns |-> IF d \in back THEN None ELSE hard[d]]
    /\ cancelled' = [d \in Conns |-> cancelled[d] \/ d \in back]
    /\ announced' = [announced EXCEPT ![c] = TRUE]
    /\ reply' = [reply EXCEPT ![c].step = "idle"]
    /\ UNCHANGED <<calm, open, sess, made, index, kicked, targets, clean, uid, ctl, gone, panics, logins, commands>>

-----------------------------------------------------------------------------
(* Control messages (onGWControl), one after the other *)

Command(c, p, step) ==
    /\ ctl.step = "idle" /\ commands < MaxCommands
    /\ ctl' = [step |-> step, conn |-> c, player |-> p] /\ commands' = commands + 1

Done == ctl' = Idle

(* Kick(connID): out of the table, out of the index, the rest, closed.      *)
KickBegin(c) ==
    /\ ~calm /\ c \in sess /\ Command(c, None, "kick")
    /\ sess' = sess \ {c}
    /\ UNCHANGED <<calm, open, made, index, kicked, reply, targets, clean, uid, events, panics, logins>>

KickIndex ==
    LET c == ctl.conn  o == ownerOf[c] IN
    /\ ctl.step = "kick" /\ o \notin stuck
    /\ o # None => ~OnlyEntry(o, c)
    /\ idx' = IF o # None /\ Listed(o, c) THEN [idx EXCEPT ![o] = Cut(@, c)] ELSE idx
    /\ ctl' = [ctl EXCEPT !.step = "rest"]
    /\ UNCHANGED <<calm, open, sess, made, bound, pidx, ownerOf, extra, kicked, reply, targets, clean, uid, events, panics, logins, commands>>

KickPanics ==
    LET c == ctl.conn  o == ownerOf[c] IN
    /\ ctl.step = "kick" /\ o # None /\ o \notin stuck /\ OnlyEntry(o, c)
    /\ stuck' = stuck \cup {o} /\ Done
    /\ UNCHANGED <<calm, open, sess, made, index, kicked, reply, targets, clean, uid, events, stuckBind, logins, commands>>

KickRest ==
    LET c == ctl.conn IN
    /\ ctl.step = "rest" /\ c \notin stuckBind
    /\ pidx' = IF extra[c] # None THEN [pidx EXCEPT ![extra[c]] = Without(@, c)] ELSE pidx
    /\ extra' = [extra EXCEPT ![c] = None] /\ ownerOf' = [ownerOf EXCEPT ![c] = None]
    /\ Kicked({c}) /\ Done
    /\ UNCHANGED <<calm, sess, made, bound, idx, reply, targets, clean, uid, events, panics, logins, commands>>

(* GWControlBind: other sessions of the player are kicked, then the session *)
(* is listed under the player instead of the one before.                    *)
BindPlayer(c, p) ==
    /\ c \in sess /\ bound[c] # None /\ (calm => c \in open) /\ Command(c, p, "bind")
    /\ MayEnd(ToSet(pidx[p]) \ {c}) /\ Kicked(ToSet(pidx[p]) \ {c})
    /\ UNCHANGED <<calm, sess, made, index, reply, targets, clean, uid, events, panics, logins>>

AddExtra ==
    LET c == ctl.conn  p == ctl.player  old == extra[c] IN
    /\ ctl.step = "bind" /\ c \notin stuckBind
    /\ extra' = [extra EXCEPT ![c] = p]
    /\ pidx' = [q \in Players |-> LET left == IF q = old THEN Without(pidx[q], c) ELSE pidx[q] IN
                                  IF q = p THEN Append(left, c) ELSE left]
    /\ Done
    /\ UNCHANGED <<calm, open, sess, made, bound, idx, ownerOf, kicked, reply, targets, clean, uid, events, panics, logins, commands>>

-----------------------------------------------------------------------------
Next ==
    \/ \E c \in Conns :
          \/ Create(c) \/ ClientCloses(c)
          \/ CleanBegin(c) \/ CleanIndex(c) \/ CleanExtras(c) \/ CleanTell(c) \/ HardFires(c)
          \/ \E o \in Owners : ReplyLookup(c, o)
          \/ ReplyKnown(c) \/ ReplyPanics(c) \/ ReplyBind(c) \/ ReplyKick(c) \/ ReplyTell(c)
          \/ KickBegin(c) \/ \E p \in Players : BindPlayer(c, p)
    \/ KickIndex \/ KickPanics \/ KickRest \/ AddExtra

Spec == Init /\ [][Next]_vars

-----------------------------------------------------------------------------
(* Types *)
GSTypeOK ==
    /\ open \subseteq Conns /\ sess \subseteq Conns
    /\ bound \in [Conns -> Owners \cup {None}] /\ extra \in [Conns -> Players \cup {None}]
    /\ \A o \in Owners : ToSet(idx[o]) \subseteq Conns \cup {None}
    /\ \A p \in Players : ToSet(pidx[p]) \subseteq Conns
    /\ clean \in [Conns -> {"idle", "index", "extras", "tell"}]
    /\ hard \in [Conns -> Owners \cup {None}] /\ stuck \subseteq Owners

(* A session ends with one disconnect event at most, whoever calls cleanup  *)
(* and however often (cleanup).                                             *)
DisconnectOnce == \A c \in Conns : gone[c] <= made[c]

AtRest ==
    /\ \A c \in Conns : reply[c].step = "idle" /\ clean[c] = "idle" /\ (c \in sess => c \in open)
    /\ ctl.step = "idle"

(* At rest the indexes list exactly the sessions that are bound, each once: *)
(* pushes reach who is there and nobody else (idIndex, extraIDs).           *)
IndexExact ==
    calm /\ AtRest =>
        /\ \A o \in Owners : ToSet(idx[o]) = {c \in sess : bound[c] = o} /\ IsInjective(idx[o])
        /\ \A p \in Players : ToSet(pidx[p]) = {c \in sess : extra[c] = p} /\ IsInjective(pidx[p])
        /\ \A c \in Conns : c \in sess => ownerOf[c] = bound[c]

(* A connection that was announced and is closed was kicked, or is reported *)
(* gone now or later, or its owner came back in time.                       *)
EndIsTold ==
    calm /\ AtRest => \A c \in Conns :
        announced[c] /\ c \notin open => kicked[c] \/ gone[c] = 1 \/ hard[c] # None \/ cancelled[c]

(* Two connections that log in as the same account: one of them is kicked   *)
(* (KickOldest, the single session of an account).  Of three at once two    *)
(* may stay, since the later ones both kick the first.                      *)
SingleSession ==
    calm /\ AtRest => \A o \in Owners : Cardinality({c \in sess : bound[c] = o}) <= 1

(* A connection that is not in the table any more is closed (Kick). *)
OutIsClosed == AtRest => \A c \in open : made[c] > 0 => c \in sess
=============================================================================
