--------------------------- MODULE ChatSessionsProofs ---------------------------
(***************************************************************************)
(* Proofs about ChatSessions for every number of clients, sessions and     *)
(* messages, and every length of the history.                              *)
(***************************************************************************)
EXTENDS ChatSessions, SequenceTheorems, TLAPS

--------------------------------------------------------------------------------
(***************************************************************************)
(* Turns of a session                                                      *)
(***************************************************************************)

\* append_turn adds one turn and one to the version.
LEMMA AppendTurnAppends ==
    ASSUME NEW base \in Session, base.version = Len(base.turns), NEW m \in Messages
    PROVE  LET next == AppendTurn(base, m) IN
           /\ next \in Session
           /\ next.version = Len(next.turns)
           /\ Len(base.turns) \in Nat
           /\ Len(next.turns) = Len(base.turns) + 1
           /\ \A i \in 1 .. Len(base.turns) : next.turns[i] = base.turns[i]
           /\ next.turns[Len(next.turns)] = m
  <1> DEFINE old == base.turns
  <1>1. old \in Seq(Messages) /\ base.version \in Nat
    BY DEF Session
  <1>2. /\ Append(old, m) \in Seq(Messages)
        /\ Len(old) \in Nat /\ Len(Append(old, m)) = Len(old) + 1
        /\ \A i \in 1 .. Len(old) : Append(old, m)[i] = old[i]
        /\ Append(old, m)[Len(old) + 1] = m
    BY <1>1
  <1> QED
    BY <1>1, <1>2 DEF AppendTurn, Session

\* Sequences with a common beginning have the same prefixes.
LEMMA SamePrefix ==
    ASSUME NEW S, NEW t \in Seq(S), NEW u \in Seq(S), NEW n \in Nat,
           n <= Len(t), n <= Len(u), \A i \in 1 .. n : t[i] = u[i]
    PROVE  SubSeq(t, 1, n) = SubSeq(u, 1, n)
  <1>1. Len(t) \in Nat /\ Len(u) \in Nat
    BY LenProperties
  <1>2. /\ SubSeq(t, 1, n) \in Seq(S) /\ Len(SubSeq(t, 1, n)) = n
        /\ \A i \in 1 .. n : SubSeq(t, 1, n)[i] = t[i]
    BY <1>1, ElementOfSeq, SubSeqProperties
  <1>3. /\ SubSeq(u, 1, n) \in Seq(S) /\ Len(SubSeq(u, 1, n)) = n
        /\ \A i \in 1 .. n : SubSeq(u, 1, n)[i] = u[i]
    BY <1>1, ElementOfSeq, SubSeqProperties
  <1> QED
    BY <1>2, <1>3, SeqEqual

\* The history sent to the model is made of turns.
LEMMA HistoryTypes ==
    ASSUME NEW turns \in Seq(Messages)
    PROVE  History(turns) \in Seq(Messages)
  <1>1. Len(turns) \in Nat /\ HistoryTurnLimit \in Nat
    BY ChatAssumption
  <1> DEFINE first == IF Len(turns) > HistoryTurnLimit
                      THEN Len(turns) - HistoryTurnLimit + 1 ELSE 1
  <1>2. first \in Int /\ first >= 1
    BY <1>1
  <1> HIDE DEF first
  <1>3. \A i \in first .. Len(turns) : turns[i] \in Messages
    BY <1>1, <1>2
  <1>4. SubSeq(turns, first, Len(turns)) \in Seq(Messages)
    BY <1>1, <1>2, <1>3, SubSeqProperties
  <1> QED
    BY <1>4 DEF History, first

--------------------------------------------------------------------------------
(***************************************************************************)
(* The inductive invariant                                                 *)
(***************************************************************************)

\* The handler has read its session and has not stored its turn.
Reading == {"announce", "model", "store"}

\* A handler at work has a message nobody was answered about and a session
\* as it was read or created.
ActiveHandlers ==
    \A c \in Clients :
        /\ chat[c].pc = "idle" => chat[c].msg = None
        /\ chat[c].pc # "idle" =>
              /\ chat[c].msg \in Messages
              /\ chat[c].session \in SessionIds
              /\ chat[c].base \in Session
              /\ chat[c].base.version = Len(chat[c].base.turns)
              /\ told[chat[c].msg] = "nothing"

OneHandlerPerMessage ==
    \A c, d \in Clients : chat[c].pc # "idle" /\ c # d => chat[c].msg # chat[d].msg

\* The stored session begins with the turns of the one that was read.
Continues(stored, base) ==
    /\ stored # None
    /\ Len(base.turns) <= Len(stored.turns)
    /\ \A i \in 1 .. Len(base.turns) : stored.turns[i] = base.turns[i]

\* A handler's base is an earlier state of its session, or the new one.
BaseIsPrefix ==
    \A c \in Clients : chat[c].pc \in Reading =>
        IF chat[c].is_new THEN chat[c].base = NewSession
        ELSE Continues(sessions[chat[c].session], chat[c].base)

ContextOfBase ==
    \A c \in Clients : chat[c].pc \in Reading =>
        context[chat[c].msg] = History(chat[c].base.turns)

\* A turn is stored by the handler that goes on to finish, and by no other.
FinishedIsStored == \A c \in Clients : chat[c].pc = "finish" => Stored(chat[c].msg)

StoredWasFinished ==
    \A m \in Messages : Stored(m) =>
        \/ told[m] \in {"done", "lost"}
        \/ \E c \in Clients : chat[c].pc = "finish" /\ chat[c].msg = m

ChatInv ==
    /\ TypeOK
    /\ ActiveHandlers
    /\ OneHandlerPerMessage
    /\ BaseIsPrefix
    /\ ContextOfBase
    /\ FinishedIsStored
    /\ StoredWasFinished
    /\ TurnsSawTheirHistory
    /\ DoneIsStored

\* A handler is a handler.
LEMMA IdleHandler == Idle \in Handler /\ Idle.pc = "idle" /\ Idle.msg = None
  BY DEF Idle, Handler, ChatPC

\* An empty store satisfies the invariant.
LEMMA ChatStarts == Init => ChatInv
  <1> SUFFICES ASSUME Init PROVE ChatInv
    OBVIOUS
  <1>1. \A c \in Clients : chat[c] = Idle
    BY DEF Init
  <1>2. \A m \in Messages : ~Stored(m)
    BY DEF Init, Stored
  <1>3. TypeOK
    BY IdleHandler DEF Init, TypeOK
  <1>4. ActiveHandlers /\ OneHandlerPerMessage /\ BaseIsPrefix /\ ContextOfBase
        /\ FinishedIsStored
    BY <1>1, IdleHandler
       DEF ActiveHandlers, OneHandlerPerMessage, BaseIsPrefix, ContextOfBase,
           FinishedIsStored, Reading
  <1>5. TurnsSawTheirHistory /\ DoneIsStored
    BY DEF Init, TurnsSawTheirHistory, DoneIsStored
  <1> QED
    BY <1>2, <1>3, <1>4, <1>5 DEF ChatInv, StoredWasFinished

--------------------------------------------------------------------------------
(***************************************************************************)
(* Steps that store nothing                                                *)
(***************************************************************************)

\* A handler that goes on without storing or answering.
LEMMA GoingOnKeeps ==
    ASSUME ChatInv, NEW c \in Clients, NEW h \in Handler,
           chat[c].pc \in Reading, h.pc \in Reading,
           h.msg = chat[c].msg, h.session = chat[c].session,
           h.is_new = chat[c].is_new, h.base = chat[c].base,
           chat' = [chat EXCEPT ![c] = h],
           page' \in [Clients -> SessionIds \cup {None}],
           UNCHANGED <<sessions, issued, context, told>>
    PROVE  ChatInv'
  <1>1. /\ TypeOK /\ ActiveHandlers /\ OneHandlerPerMessage /\ BaseIsPrefix
        /\ ContextOfBase /\ FinishedIsStored /\ StoredWasFinished
        /\ TurnsSawTheirHistory /\ DoneIsStored
    BY DEF ChatInv
  <1>2. /\ chat' \in [Clients -> Handler]
        /\ chat'[c] = h
        /\ \A d \in Clients \ {c} : chat'[d] = chat[d]
    BY <1>1 DEF TypeOK
  <1>3. TypeOK'
    BY <1>1, <1>2 DEF TypeOK
  <1>4. ActiveHandlers'
    BY <1>1, <1>2 DEF ActiveHandlers, Reading
  <1>5. OneHandlerPerMessage'
    BY <1>1, <1>2 DEF OneHandlerPerMessage, Reading
  <1>6. BaseIsPrefix'
    BY <1>1, <1>2 DEF BaseIsPrefix, Continues
  <1>7. ContextOfBase'
    BY <1>1, <1>2 DEF ContextOfBase
  <1>8. \A m \in Messages : Stored(m)' <=> Stored(m)
    BY DEF Stored, StoredAt
  <1>9. FinishedIsStored'
    BY <1>1, <1>2, <1>8 DEF FinishedIsStored, ActiveHandlers, Reading
  <1>10. StoredWasFinished'
    BY <1>1, <1>2, <1>8 DEF StoredWasFinished, Reading
  <1>11. TurnsSawTheirHistory' /\ DoneIsStored'
    BY <1>1, <1>8 DEF TurnsSawTheirHistory, DoneIsStored
  <1> QED
    BY <1>3, <1>4, <1>5, <1>6, <1>7, <1>9, <1>10, <1>11 DEF ChatInv

\* A handler that ends: only one that stored its turn says so.
LEMMA EndingKeeps ==
    ASSUME ChatInv, NEW c \in Clients, chat[c].pc # "idle",
           NEW what \in {"done", "lost"} \cup Refused, Ends(c, what),
           what = "done" => chat[c].pc = "finish",
           what \in Refused => chat[c].pc # "finish",
           UNCHANGED <<sessions, issued, page, context>>
    PROVE  ChatInv'
  <1> DEFINE mine == chat[c].msg
  <1>1. /\ TypeOK /\ ActiveHandlers /\ OneHandlerPerMessage /\ BaseIsPrefix
        /\ ContextOfBase /\ FinishedIsStored /\ StoredWasFinished
        /\ TurnsSawTheirHistory /\ DoneIsStored
    BY DEF ChatInv
  <1>2. /\ chat' \in [Clients -> Handler]
        /\ chat'[c] = Idle
        /\ \A d \in Clients \ {c} : chat'[d] = chat[d]
    BY <1>1, IdleHandler DEF TypeOK, Ends
  <1>3. mine \in Messages /\ told[mine] = "nothing"
    BY <1>1 DEF ActiveHandlers
  <1>4. /\ told' \in [Messages -> {"nothing", "done", "lost"} \cup Refused]
        /\ told'[mine] = what
        /\ \A m \in Messages \ {mine} : told'[m] = told[m]
    BY <1>1, <1>3 DEF TypeOK, Ends, Tell
  <1>5. \A d \in Clients \ {c} : chat[d].pc # "idle" => chat[d].msg \in Messages \ {mine}
    BY <1>1 DEF ActiveHandlers, OneHandlerPerMessage
  <1>6. TypeOK'
    BY <1>1, <1>2, <1>4 DEF TypeOK
  <1>7. ActiveHandlers'
    BY <1>1, <1>2, <1>4, <1>5, IdleHandler DEF ActiveHandlers
  <1>8. OneHandlerPerMessage'
    BY <1>1, <1>2, IdleHandler, ChatAssumption DEF OneHandlerPerMessage, ActiveHandlers
  <1>9. BaseIsPrefix' /\ ContextOfBase'
    BY <1>1, <1>2, IdleHandler DEF BaseIsPrefix, ContextOfBase, Continues, Reading
  <1>10. \A m \in Messages : Stored(m)' <=> Stored(m)
    BY DEF Stored, StoredAt
  <1>11. FinishedIsStored'
    BY <1>1, <1>2, <1>5, <1>10, IdleHandler DEF FinishedIsStored
  <1>12. StoredWasFinished'
    <2> SUFFICES ASSUME NEW m \in Messages, Stored(m)
                 PROVE  \/ told'[m] \in {"done", "lost"}
                        \/ \E d \in Clients : chat'[d].pc = "finish" /\ chat'[d].msg = m
      BY <1>10 DEF StoredWasFinished
    <2>1. CASE m = mine
      <3>1. chat[c].pc = "finish"
        BY <2>1, <1>1, <1>3, <1>5 DEF StoredWasFinished
      <3> QED
        BY <2>1, <3>1, <1>4
    <2>2. CASE m # mine
      BY <2>2, <1>1, <1>2, <1>4 DEF StoredWasFinished
    <2> QED
      BY <2>1, <2>2
  <1>13. TurnsSawTheirHistory'
    BY <1>1 DEF TurnsSawTheirHistory
  <1>14. DoneIsStored'
    BY <1>1, <1>4, <1>10 DEF DoneIsStored, FinishedIsStored
  <1> QED
    BY <1>6, <1>7, <1>8, <1>9, <1>11, <1>12, <1>13, <1>14 DEF ChatInv

--------------------------------------------------------------------------------
(***************************************************************************)
(* Reading a session                                                       *)
(***************************************************************************)

\* A handler that begins on a message of its own with a session it has read,
\* or with a new one.
LEMMA BeginningKeeps ==
    ASSUME ChatInv, NEW c \in Clients, NEW m \in Unused, NEW stream \in BOOLEAN,
           NEW s \in SessionIds, NEW base \in Session, NEW is_new \in BOOLEAN,
           chat[c].pc = "idle", Begins(c, m, stream, s, base, is_new),
           base.version = Len(base.turns),
           IF is_new THEN base = NewSession ELSE sessions[s] = base,
           issued' \subseteq SessionIds
    PROVE  ChatInv'
  <1> DEFINE h == [pc |-> IF stream THEN "announce" ELSE "model",
                   stream |-> stream, msg |-> m, session |-> s,
                   is_new |-> is_new, base |-> base, text |-> "empty"]
  <1>1. /\ TypeOK /\ ActiveHandlers /\ OneHandlerPerMessage /\ BaseIsPrefix
        /\ ContextOfBase /\ FinishedIsStored /\ StoredWasFinished
        /\ TurnsSawTheirHistory /\ DoneIsStored
    BY DEF ChatInv
  <1>2. m \in Messages /\ told[m] = "nothing" /\ \A d \in Clients : chat[d].msg # m
    BY DEF Unused
  <1>3. h \in Handler
    BY <1>2 DEF Handler, ChatPC
  <1>4. /\ h.pc \in {"announce", "model"} /\ h.msg = m /\ h.session = s
        /\ h.is_new = is_new /\ h.base = base
    OBVIOUS
  <1> HIDE DEF h
  <1>5. /\ chat' \in [Clients -> Handler]
        /\ chat'[c] = h
        /\ \A d \in Clients \ {c} : chat'[d] = chat[d]
    BY <1>1, <1>3 DEF TypeOK, Begins, h
  <1>6. base.turns \in Seq(Messages)
    BY DEF Session
  <1>7. /\ context' \in [Messages -> Seq(Messages)]
        /\ context'[m] = History(base.turns)
        /\ \A n \in Messages \ {m} : context'[n] = context[n]
    BY <1>1, <1>2, <1>6, HistoryTypes DEF TypeOK, Begins
  <1>8. sessions' = sessions /\ page' = page /\ told' = told
    BY DEF Begins
  <1>9. ~Stored(m)
    BY <1>1, <1>2 DEF StoredWasFinished
  <1>10. \A d \in Clients \ {c} : chat[d].pc # "idle" => chat[d].msg \in Messages \ {m}
    BY <1>1, <1>2 DEF ActiveHandlers
  <1>11. TypeOK'
    BY <1>1, <1>5, <1>7, <1>8 DEF TypeOK
  <1>12. ActiveHandlers'
    BY <1>1, <1>2, <1>4, <1>5, <1>8 DEF ActiveHandlers
  <1>13. OneHandlerPerMessage'
    BY <1>1, <1>2, <1>4, <1>5 DEF OneHandlerPerMessage
  <1>14. BaseIsPrefix'
    <2>1. ~is_new => Continues(sessions[s], base)
      <3>1. Len(base.turns) \in Nat
        BY <1>6
      <3> QED
        BY <3>1, SessionAssumption DEF Continues
    <2>2. \A d \in Clients : chat'[d].pc \in Reading =>
             IF chat'[d].is_new THEN chat'[d].base = NewSession
             ELSE Continues(sessions[chat'[d].session], chat'[d].base)
      BY <2>1, <1>1, <1>4, <1>5 DEF BaseIsPrefix
    <2> QED
      BY <2>2, <1>8 DEF BaseIsPrefix, Continues
  <1>15. ContextOfBase'
    BY <1>1, <1>2, <1>4, <1>5, <1>7, <1>10 DEF ContextOfBase, Reading
  <1>16. \A n \in Messages : Stored(n)' <=> Stored(n)
    BY <1>8 DEF Stored, StoredAt
  <1>17. FinishedIsStored'
    BY <1>1, <1>4, <1>5, <1>10, <1>16 DEF FinishedIsStored
  <1>18. StoredWasFinished'
    BY <1>1, <1>5, <1>8, <1>16 DEF StoredWasFinished
  <1>19. TurnsSawTheirHistory'
    <2> SUFFICES ASSUME NEW t \in SessionIds, sessions[t] # None,
                        NEW i \in 1 .. Len(sessions[t].turns)
                 PROVE  context'[sessions[t].turns[i]]
                           = History(SubSeq(sessions[t].turns, 1, i - 1))
      BY <1>8 DEF TurnsSawTheirHistory
    <2>1. sessions[t].turns \in Seq(Messages)
      BY <1>1 DEF TypeOK, Session
    <2>2. sessions[t].turns[i] \in Messages
      BY <2>1
    <2>3. sessions[t].turns[i] # m
      BY <1>9, <1>2 DEF Stored, StoredAt
    <2> QED
      BY <2>2, <2>3, <1>1, <1>7 DEF TurnsSawTheirHistory
  <1>20. DoneIsStored'
    BY <1>1, <1>8, <1>16 DEF DoneIsStored
  <1> QED
    BY <1>11, <1>12, <1>13, <1>14, <1>15, <1>17, <1>18, <1>19, <1>20 DEF ChatInv

\* A message that is refused before any handler works on it.
LEMMA RefusingKeeps ==
    ASSUME ChatInv, NEW m \in Unused, NEW what \in Refused, Tell(m, what),
           UNCHANGED <<sessions, issued, page, chat, context>>
    PROVE  ChatInv'
  <1>1. /\ TypeOK /\ ActiveHandlers /\ OneHandlerPerMessage /\ BaseIsPrefix
        /\ ContextOfBase /\ FinishedIsStored /\ StoredWasFinished
        /\ TurnsSawTheirHistory /\ DoneIsStored
    BY DEF ChatInv
  <1>2. m \in Messages /\ told[m] = "nothing" /\ \A d \in Clients : chat[d].msg # m
    BY DEF Unused
  <1>3. /\ told' \in [Messages -> {"nothing", "done", "lost"} \cup Refused]
        /\ told'[m] = what
        /\ \A n \in Messages \ {m} : told'[n] = told[n]
    BY <1>1, <1>2 DEF TypeOK, Tell
  <1>4. what \notin {"done", "lost"}
    BY DEF Refused, Retryable
  <1>5. \A n \in Messages : Stored(n)' <=> Stored(n)
    BY DEF Stored, StoredAt
  <1>6. ~Stored(m)
    BY <1>1, <1>2 DEF StoredWasFinished
  <1>7. TypeOK'
    BY <1>1, <1>3 DEF TypeOK
  <1>8. ActiveHandlers'
    BY <1>1, <1>2, <1>3 DEF ActiveHandlers
  <1>9. OneHandlerPerMessage' /\ BaseIsPrefix' /\ ContextOfBase' /\ TurnsSawTheirHistory'
    BY <1>1 DEF OneHandlerPerMessage, BaseIsPrefix, Continues, ContextOfBase,
                TurnsSawTheirHistory
  <1>10. FinishedIsStored'
    BY <1>1, <1>5 DEF FinishedIsStored, ActiveHandlers
  <1>11. StoredWasFinished' /\ DoneIsStored'
    BY <1>1, <1>3, <1>4, <1>5, <1>6 DEF StoredWasFinished, DoneIsStored
  <1> QED
    BY <1>7, <1>8, <1>9, <1>10, <1>11 DEF ChatInv

--------------------------------------------------------------------------------
(***************************************************************************)
(* Storing a turn                                                          *)
(***************************************************************************)

\* What the version check of update, and the absence check of add, are for:
\* the turn is added to the session exactly as it is stored now.
LEMMA StoringAppends ==
    ASSUME ChatInv, NEW c \in Clients, StoreTurn(c)
    PROVE  LET s == chat[c].session
               base == chat[c].base
               next == AppendTurn(base, chat[c].msg)
           IN  /\ next \in Session /\ next # None
               /\ next.version = Len(next.turns)
               /\ Len(base.turns) \in Nat
               /\ Len(next.turns) = Len(base.turns) + 1
               /\ next.turns[Len(next.turns)] = chat[c].msg
               /\ \A i \in 1 .. Len(base.turns) : next.turns[i] = base.turns[i]
               /\ sessions' \in [SessionIds -> Session \cup {None}]
               /\ sessions'[s] = next
               /\ \A t \in SessionIds \ {s} : sessions'[t] = sessions[t]
               /\ sessions[s] = None => Len(base.turns) = 0
               /\ sessions[s] # None =>
                     /\ Len(sessions[s].turns) = Len(base.turns)
                     /\ \A i \in 1 .. Len(base.turns) : sessions[s].turns[i] = base.turns[i]
  <1> DEFINE s == chat[c].session
             base == chat[c].base
             m == chat[c].msg
             next == AppendTurn(base, m)
  <1>1. TypeOK /\ ActiveHandlers /\ BaseIsPrefix
    BY DEF ChatInv
  <1>2. chat[c].pc = "store" /\ VersionMatches(c)
    BY DEF StoreTurn
  <1>3. /\ m \in Messages /\ s \in SessionIds /\ base \in Session
        /\ base.version = Len(base.turns)
    BY <1>1, <1>2 DEF ActiveHandlers
  <1>4. /\ next \in Session /\ next.version = Len(next.turns)
        /\ Len(base.turns) \in Nat /\ Len(next.turns) = Len(base.turns) + 1
        /\ \A i \in 1 .. Len(base.turns) : next.turns[i] = base.turns[i]
        /\ next.turns[Len(next.turns)] = m
    BY <1>3, AppendTurnAppends
  <1>5. next # None
    BY <1>4, SessionAssumption
  <1>6. CASE chat[c].is_new
    <2>1. sessions[s] = None /\ base = NewSession
      BY <1>1, <1>2, <1>6 DEF BaseIsPrefix, VersionMatches, Reading
    <2>2. Len(base.turns) = 0
      BY <2>1 DEF NewSession
    <2> QED
      BY <2>1, <2>2, <1>1, <1>3, <1>4, <1>5 DEF StoreTurn, TypeOK
  <1>7. CASE ~chat[c].is_new
    <2>1. /\ sessions[s] # None
          /\ sessions[s].version = base.version
          /\ \A i \in 1 .. Len(base.turns) : sessions[s].turns[i] = base.turns[i]
      BY <1>1, <1>2, <1>7 DEF BaseIsPrefix, VersionMatches, Continues, Reading
    <2>2. Len(sessions[s].turns) = Len(base.turns)
      BY <2>1, <1>1, <1>3 DEF TypeOK
    <2> QED
      BY <2>1, <2>2, <1>1, <1>3, <1>4, <1>5 DEF StoreTurn, TypeOK
  <1> QED
    BY <1>6, <1>7

\* The stored turns are those stored before and the new one.
LEMMA StoringStoresOne ==
    ASSUME ChatInv, NEW c \in Clients, StoreTurn(c), NEW m \in Messages
    PROVE  Stored(m)' <=> Stored(m) \/ m = chat[c].msg
  <1> DEFINE s == chat[c].session
             base == chat[c].base
             n == Len(base.turns)
  <1>1. /\ n \in Nat /\ sessions'[s] # None /\ Len(sessions'[s].turns) = n + 1
        /\ sessions'[s].turns[n + 1] = chat[c].msg
        /\ \A i \in 1 .. n : sessions'[s].turns[i] = base.turns[i]
        /\ \A t \in SessionIds \ {s} : sessions'[t] = sessions[t]
        /\ sessions[s] = None => n = 0
        /\ sessions[s] # None =>
              /\ Len(sessions[s].turns) = n
              /\ \A i \in 1 .. n : sessions[s].turns[i] = base.turns[i]
    BY StoringAppends
  <1>2. s \in SessionIds
    BY DEF ChatInv, ActiveHandlers, StoreTurn
  <1> HIDE DEF s, n, base
  <1>3. ASSUME Stored(m)' PROVE Stored(m) \/ m = chat[c].msg
    <2>1. PICK t \in SessionIds : sessions'[t] # None
              /\ \E i \in 1 .. Len(sessions'[t].turns) : sessions'[t].turns[i] = m
      BY <1>3 DEF Stored, StoredAt
    <2>2. PICK i \in 1 .. Len(sessions'[t].turns) : sessions'[t].turns[i] = m
      BY <2>1
    <2>3. CASE t # s
      BY <2>1, <2>2, <2>3, <1>1 DEF Stored, StoredAt
    <2>4. CASE t = s /\ i = n + 1
      BY <2>2, <2>4, <1>1
    <2>5. CASE t = s /\ i # n + 1
      <3>1. i \in 1 .. n
        BY <2>2, <2>5, <1>1
      <3>2. sessions[s] # None /\ sessions[s].turns[i] = m /\ i \in 1 .. Len(sessions[s].turns)
        BY <3>1, <2>2, <2>5, <1>1
      <3> QED
        BY <3>2, <1>2 DEF Stored, StoredAt
    <2> QED
      BY <2>3, <2>4, <2>5
  <1>4. ASSUME Stored(m) PROVE Stored(m)'
    <2>1. PICK t \in SessionIds : sessions[t] # None
              /\ \E i \in 1 .. Len(sessions[t].turns) : sessions[t].turns[i] = m
      BY <1>4 DEF Stored, StoredAt
    <2>2. PICK i \in 1 .. Len(sessions[t].turns) : sessions[t].turns[i] = m
      BY <2>1
    <2>3. CASE t # s
      BY <2>1, <2>2, <2>3, <1>1 DEF Stored, StoredAt
    <2>4. CASE t = s
      <3>1. i \in 1 .. n /\ i \in 1 .. Len(sessions'[s].turns) /\ sessions'[s].turns[i] = m
        BY <2>1, <2>2, <2>4, <1>1
      <3> QED
        BY <3>1, <1>1, <1>2 DEF Stored, StoredAt
    <2> QED
      BY <2>3, <2>4
  <1>5. ASSUME m = chat[c].msg PROVE Stored(m)'
    <2>1. n + 1 \in 1 .. Len(sessions'[s].turns)
      BY <1>1
    <2> QED
      BY <2>1, <1>1, <1>2, <1>5 DEF Stored, StoredAt
  <1> QED
    BY <1>3, <1>4, <1>5

\* Every stored session is continued.
LEMMA StoringContinues ==
    ASSUME ChatInv, NEW c \in Clients, StoreTurn(c),
           NEW t \in SessionIds, sessions[t] # None
    PROVE  Continues(sessions'[t], sessions[t])
  <1>1. sessions[t].turns \in Seq(Messages)
    BY DEF ChatInv, TypeOK, Session
  <1>2. Len(sessions[t].turns) \in Nat
    BY <1>1
  <1>3. CASE t # chat[c].session
    <2>1. sessions'[t] = sessions[t]
      BY <1>3, StoringAppends
    <2> QED
      BY <2>1, <1>2 DEF Continues
  <1>4. CASE t = chat[c].session
    <2> DEFINE n == Len(chat[c].base.turns)
    <2>1. /\ sessions'[t] # None /\ n \in Nat /\ Len(sessions'[t].turns) = n + 1
          /\ Len(sessions[t].turns) = n
          /\ \A i \in 1 .. n : sessions'[t].turns[i] = sessions[t].turns[i]
      BY <1>4, StoringAppends
    <2> QED
      BY <2>1 DEF Continues
  <1> QED
    BY <1>3, <1>4

\* The new turn saw all turns before it, the others what they saw.
LEMMA StoringKeepsHistories ==
    ASSUME ChatInv, NEW c \in Clients, StoreTurn(c)
    PROVE  TurnsSawTheirHistory'
  <1> DEFINE s == chat[c].session
             base == chat[c].base
             n == Len(base.turns)
             new == sessions'[s].turns
  <1>1. /\ n \in Nat /\ sessions'[s] \in Session /\ Len(new) = n + 1
        /\ new[n + 1] = chat[c].msg
        /\ \A i \in 1 .. n : new[i] = base.turns[i]
        /\ \A t \in SessionIds \ {s} : sessions'[t] = sessions[t]
        /\ sessions[s] = None => n = 0
        /\ sessions[s] # None =>
              /\ Len(sessions[s].turns) = n
              /\ \A i \in 1 .. n : sessions[s].turns[i] = base.turns[i]
    BY StoringAppends
  <1>2. s \in SessionIds /\ base \in Session
    BY DEF ChatInv, ActiveHandlers, StoreTurn
  <1>3. new \in Seq(Messages) /\ base.turns \in Seq(Messages)
    BY <1>1, <1>2 DEF Session
  <1>4. context' = context
    BY DEF StoreTurn
  <1>5. TurnsSawTheirHistory /\ context[chat[c].msg] = History(base.turns)
    BY DEF ChatInv, ContextOfBase, StoreTurn, Reading
  <1> SUFFICES ASSUME NEW t \in SessionIds, sessions'[t] # None,
                      NEW i \in 1 .. Len(sessions'[t].turns)
               PROVE  context[sessions'[t].turns[i]]
                         = History(SubSeq(sessions'[t].turns, 1, i - 1))
    BY <1>4 DEF TurnsSawTheirHistory
  <1>6. CASE t # s
    BY <1>1, <1>5, <1>6 DEF TurnsSawTheirHistory
  <1>7. CASE t = s /\ i = n + 1
    <2>1. SubSeq(new, 1, n) = SubSeq(base.turns, 1, n)
      <3> HIDE DEF new, n
      <3>1. n <= Len(new) /\ n <= Len(base.turns) /\ \A k \in 1 .. n : new[k] = base.turns[k]
        BY <1>1, <1>3 DEF n
      <3> QED
        BY <3>1, <1>1, <1>3, SamePrefix
    <2>2. SubSeq(base.turns, 1, n) = base.turns
      BY <1>3
    <2>3. i - 1 = n
      BY <1>1, <1>7
    <2> QED
      BY <2>1, <2>2, <2>3, <1>1, <1>5, <1>7
  <1>8. CASE t = s /\ i # n + 1
    <2>1. i \in 1 .. n /\ sessions[s] # None
      BY <1>1, <1>8
    <2> DEFINE old == sessions[s].turns
    <2>2. old \in Seq(Messages) /\ Len(old) = n
      BY <2>1, <1>1, <1>2 DEF ChatInv, TypeOK, Session
    <2>3. SubSeq(new, 1, i - 1) = SubSeq(old, 1, i - 1)
      <3> HIDE DEF new, old, n
      <3>1. /\ i - 1 \in Nat /\ i - 1 <= Len(new) /\ i - 1 <= Len(old)
            /\ \A k \in 1 .. i - 1 : new[k] = old[k]
        BY <2>1, <2>2, <1>1 DEF old, new
      <3> QED
        BY <3>1, <2>2, <1>3, SamePrefix
    <2>4. new[i] = old[i]
      BY <2>1, <1>1
    <2>5. context[old[i]] = History(SubSeq(old, 1, i - 1))
      BY <2>1, <2>2, <1>2, <1>5 DEF TurnsSawTheirHistory
    <2> QED
      BY <2>3, <2>4, <2>5, <1>8
  <1> QED
    BY <1>6, <1>7, <1>8

\* Continuing a session is transitive.
LEMMA ContinuesTransitive ==
    ASSUME NEW base \in Session, NEW stored \in Session, NEW next \in Session,
           Continues(stored, base), Continues(next, stored)
    PROVE  Continues(next, base)
  <1>1. /\ next # None
        /\ Len(base.turns) \in Nat /\ Len(stored.turns) \in Nat /\ Len(next.turns) \in Nat
        /\ Len(base.turns) <= Len(stored.turns) /\ Len(stored.turns) <= Len(next.turns)
    BY DEF Continues, Session
  <1>2. \A i \in 1 .. Len(base.turns) : i \in 1 .. Len(stored.turns)
    BY <1>1
  <1>3. \A i \in 1 .. Len(base.turns) : next.turns[i] = base.turns[i]
    BY <1>2 DEF Continues
  <1> QED
    BY <1>1, <1>3 DEF Continues

\* A stored turn keeps the other handlers' bases earlier states of the session.
LEMMA StoringKeepsBases ==
    ASSUME ChatInv, NEW c \in Clients, StoreTurn(c)
    PROVE  BaseIsPrefix' /\ ContextOfBase'
  <1>1. /\ chat' \in [Clients -> Handler]
        /\ chat'[c].pc = "finish"
        /\ \A d \in Clients \ {c} : chat'[d] = chat[d]
        /\ context' = context
    BY DEF ChatInv, TypeOK, StoreTurn, Handler, ChatPC
  <1>2. ContextOfBase'
    BY <1>1 DEF ContextOfBase, ChatInv, Reading
  <1> SUFFICES ASSUME NEW d \in Clients, chat'[d].pc \in Reading, ~chat'[d].is_new
               PROVE  Continues(sessions'[chat'[d].session], chat'[d].base)
    <2>1. \A d \in Clients : chat'[d].pc \in Reading /\ chat'[d].is_new
                                => chat'[d].base = NewSession
      BY <1>1 DEF BaseIsPrefix, ChatInv, Reading
    <2> QED
      BY <2>1, <1>2 DEF BaseIsPrefix, Continues
  <1>3. d # c /\ chat'[d] = chat[d]
    BY <1>1 DEF Reading
  <1> DEFINE t == chat[d].session
             base == chat[d].base
  <1>4. t \in SessionIds /\ base \in Session
    BY <1>3 DEF ChatInv, ActiveHandlers, Reading
  <1>5. Continues(sessions[t], base)
    BY <1>3 DEF ChatInv, BaseIsPrefix
  <1>6. sessions[t] # None
    BY <1>5 DEF Continues
  <1>7. Continues(sessions'[t], sessions[t])
    BY <1>4, <1>6, StoringContinues
  <1>8. sessions'[t] \in Session \cup {None} /\ sessions'[t] # None /\ sessions[t] \in Session
    BY <1>4, <1>6, <1>7, StoringAppends DEF Continues, ChatInv, TypeOK
  <1>9. Continues(sessions'[t], base)
    BY <1>4, <1>5, <1>7, <1>8, ContinuesTransitive
  <1> QED
    BY <1>3, <1>9

\* Storing a turn keeps the invariant.
LEMMA StoringKeeps ==
    ASSUME ChatInv, NEW c \in Clients, StoreTurn(c)
    PROVE  ChatInv'
  <1>1. /\ TypeOK /\ ActiveHandlers /\ OneHandlerPerMessage
        /\ FinishedIsStored /\ StoredWasFinished /\ DoneIsStored
    BY DEF ChatInv
  <1>2. /\ chat' \in [Clients -> Handler]
        /\ chat'[c].pc = "finish"
        /\ chat'[c].msg = chat[c].msg /\ chat'[c].session = chat[c].session
        /\ chat'[c].base = chat[c].base
        /\ \A d \in Clients \ {c} : chat'[d] = chat[d]
        /\ UNCHANGED <<issued, page, context, told>>
        /\ chat[c].pc = "store"
    BY <1>1 DEF StoreTurn, TypeOK, Handler, ChatPC
  <1>3. /\ sessions' \in [SessionIds -> Session \cup {None}]
        /\ sessions'[chat[c].session].version = Len(sessions'[chat[c].session].turns)
        /\ \A t \in SessionIds \ {chat[c].session} : sessions'[t] = sessions[t]
    BY StoringAppends
  <1>4. TypeOK'
    BY <1>1, <1>2, <1>3 DEF TypeOK
  <1>5. ActiveHandlers' /\ OneHandlerPerMessage'
    BY <1>1, <1>2 DEF ActiveHandlers, OneHandlerPerMessage
  <1>6. \A m \in Messages : Stored(m)' <=> Stored(m) \/ m = chat[c].msg
    BY StoringStoresOne
  <1>7. FinishedIsStored'
    BY <1>1, <1>2, <1>6 DEF FinishedIsStored, ActiveHandlers
  <1>8. StoredWasFinished'
    BY <1>1, <1>2, <1>6 DEF StoredWasFinished
  <1>9. DoneIsStored'
    BY <1>1, <1>2, <1>6 DEF DoneIsStored
  <1> QED
    BY <1>4, <1>5, <1>7, <1>8, <1>9, StoringKeepsBases, StoringKeepsHistories DEF ChatInv

--------------------------------------------------------------------------------
(***************************************************************************)
(* Every step                                                              *)
(***************************************************************************)

\* Every await of a handler keeps the invariant.
LEMMA HandlerStepKeeps ==
    ASSUME ChatInv, NEW c \in Clients, HandlerStep(c)
    PROVE  ChatInv'
  <1>1. TypeOK /\ ActiveHandlers
    BY DEF ChatInv
  <1>2. chat[c] \in Handler
    BY <1>1 DEF TypeOK
  <1>3. CASE Announce(c)
    <2> DEFINE h == [chat[c] EXCEPT !.pc = "model"]
    <2>1. /\ h \in Handler /\ h.pc = "model" /\ h.msg = chat[c].msg
          /\ h.session = chat[c].session /\ h.is_new = chat[c].is_new /\ h.base = chat[c].base
      BY <1>2 DEF Handler, ChatPC
    <2>2. chat' = [chat EXCEPT ![c] = h]
      BY <1>3 DEF Announce
    <2>3. page' \in [Clients -> SessionIds \cup {None}]
      BY <1>1, <1>3 DEF Announce, TypeOK, ActiveHandlers
    <2> HIDE DEF h
    <2> QED
      BY <2>1, <2>2, <2>3, <1>3, GoingOnKeeps DEF Announce, Reading
  <1>4. CASE StreamChunk(c)
    <2> DEFINE h == [chat[c] EXCEPT !.text = "text"]
    <2>1. /\ h \in Handler /\ h.pc = chat[c].pc /\ h.msg = chat[c].msg
          /\ h.session = chat[c].session /\ h.is_new = chat[c].is_new /\ h.base = chat[c].base
      BY <1>2 DEF Handler
    <2>2. chat' = [chat EXCEPT ![c] = h]
      BY <1>4 DEF StreamChunk
    <2>3. page' \in [Clients -> SessionIds \cup {None}]
      BY <1>1, <1>4 DEF StreamChunk, TypeOK
    <2> HIDE DEF h
    <2> QED
      BY <2>1, <2>2, <2>3, <1>4, GoingOnKeeps DEF StreamChunk, Reading
  <1>5. CASE ModelAnswers(c)
    <2>1. PICK text \in {"empty", "text"} :
             chat' = [chat EXCEPT ![c].pc = "store", ![c].text = text]
      BY <1>5 DEF ModelAnswers
    <2> DEFINE h == [chat[c] EXCEPT !.pc = "store", !.text = text]
    <2>2. /\ h \in Handler /\ h.pc = "store" /\ h.msg = chat[c].msg
          /\ h.session = chat[c].session /\ h.is_new = chat[c].is_new /\ h.base = chat[c].base
      BY <1>2 DEF Handler, ChatPC
    <2>3. chat' = [chat EXCEPT ![c] = h]
      BY <2>1, <1>1 DEF TypeOK
    <2>4. page' \in [Clients -> SessionIds \cup {None}]
      BY <1>1, <1>5 DEF ModelAnswers, TypeOK
    <2> HIDE DEF h
    <2> QED
      BY <2>2, <2>3, <2>4, <1>5, GoingOnKeeps DEF ModelAnswers, Reading
  <1>6. CASE ModelFails(c)
    <2>1. PICK what \in {"unavailable", "invalid"} : Ends(c, what)
      BY <1>6 DEF ModelFails
    <2> QED
      BY <2>1, <1>6, EndingKeeps DEF ModelFails, Refused, Retryable
  <1>7. CASE StoreTurn(c)
    BY <1>7, StoringKeeps
  <1>8. CASE StoreRefuses(c)
    <2>1. PICK what \in {"invalid", "conflict"} : Ends(c, what)
      BY <1>8 DEF StoreRefuses
    <2> QED
      BY <2>1, <1>8, EndingKeeps DEF StoreRefuses, Refused, Retryable
  <1>9. CASE Finish(c)
    BY <1>9, EndingKeeps DEF Finish, Refused, Retryable
  <1> QED
    BY <1>3, <1>4, <1>5, <1>6, <1>7, <1>8, <1>9 DEF HandlerStep

\* The invariant is inductive.
LEMMA NextKeeps == ChatInv /\ [Next]_vars => ChatInv'
  <1> SUFFICES ASSUME ChatInv, [Next]_vars PROVE ChatInv'
    OBVIOUS
  <1>1. CASE UNCHANGED vars
    BY <1>1 DEF vars, ChatInv, TypeOK, ActiveHandlers, OneHandlerPerMessage,
                BaseIsPrefix, Continues, ContextOfBase, FinishedIsStored,
                StoredWasFinished, Stored, StoredAt, TurnsSawTheirHistory, DoneIsStored
  <1>2. ASSUME NEW c \in Clients, Blocked(c) PROVE ChatInv'
    <2>1. PICK m \in Unused : Tell(m, "blocked")
      BY <1>2 DEF Blocked
    <2> QED
      BY <2>1, <1>2, RefusingKeeps DEF Blocked, Refused
  <1>3. ASSUME NEW c \in Clients, StartSession(c) PROVE ChatInv'
    <2>1. PICK m \in Unused, stream \in BOOLEAN, s \in SessionIds \ issued :
             issued' = issued \cup {s} /\ Begins(c, m, stream, s, NewSession, TRUE)
      BY <1>3 DEF StartSession
    <2>2. issued' \subseteq SessionIds
      BY <2>1 DEF ChatInv, TypeOK
    <2>3. NewSession \in Session /\ NewSession.version = Len(NewSession.turns)
      BY DEF NewSession, Session
    <2> QED
      BY <2>1, <2>2, <2>3, <1>3, BeginningKeeps DEF StartSession
  <1>4. ASSUME NEW c \in Clients, ContinueSession(c) PROVE ChatInv'
    <2>1. PICK m \in Unused, stream \in BOOLEAN, s \in SessionIds :
             \/ sessions[s] # None /\ Begins(c, m, stream, s, sessions[s], FALSE)
             \/ sessions[s] = None /\ Tell(m, "not_found")
                /\ UNCHANGED <<sessions, page, chat, context>>
      BY <1>4 DEF ContinueSession
    <2>2. issued' = issued /\ issued \subseteq SessionIds
      BY <1>4 DEF ContinueSession, ChatInv, TypeOK
    <2>3. CASE sessions[s] # None /\ Begins(c, m, stream, s, sessions[s], FALSE)
      <3>1. sessions[s] \in Session /\ sessions[s].version = Len(sessions[s].turns)
        BY <2>3 DEF ChatInv, TypeOK
      <3> QED
        BY <3>1, <2>2, <2>3, <1>4, BeginningKeeps DEF ContinueSession
    <2>4. CASE sessions[s] = None /\ Tell(m, "not_found")
               /\ UNCHANGED <<sessions, page, chat, context>>
      BY <2>2, <2>4, RefusingKeeps DEF Refused
    <2> QED
      BY <2>1, <2>3, <2>4
  <1>5. ASSUME NEW c \in Clients, HandlerStep(c) PROVE ChatInv'
    BY <1>5, HandlerStepKeeps
  <1>6. ASSUME NEW c \in Clients, Disconnect(c) PROVE ChatInv'
    <2>1. chat[c].pc # "idle"
      BY <1>6 DEF Disconnect
    <2> QED
      BY <2>1, <1>6, EndingKeeps DEF Disconnect, Refused, Retryable
  <1>7. ASSUME NEW c \in Clients, NewChat(c) PROVE ChatInv'
    <2>1. page' \in [Clients -> SessionIds \cup {None}]
      BY <1>7 DEF NewChat, ChatInv, TypeOK
    <2>2. UNCHANGED <<sessions, issued, chat, context, told>>
      BY <1>7 DEF NewChat
    <2>3. TypeOK'
      BY <2>1, <2>2 DEF ChatInv, TypeOK
    <2>4. /\ ActiveHandlers' /\ OneHandlerPerMessage' /\ BaseIsPrefix' /\ ContextOfBase'
          /\ TurnsSawTheirHistory'
      BY <2>2 DEF ChatInv, ActiveHandlers, OneHandlerPerMessage, BaseIsPrefix, Continues,
                  ContextOfBase, TurnsSawTheirHistory
    <2>5. FinishedIsStored' /\ StoredWasFinished' /\ DoneIsStored'
      BY <2>2 DEF ChatInv, FinishedIsStored, StoredWasFinished, Stored, StoredAt, DoneIsStored
    <2> QED
      BY <2>3, <2>4, <2>5 DEF ChatInv
  <1> QED
    BY <1>1, <1>2, <1>3, <1>4, <1>5, <1>6, <1>7 DEF Next

\* Only a stored turn changes the sessions.
LEMMA OthersStoreNothing ==
    ASSUME NEW c \in Clients,
           \/ Blocked(c) \/ StartSession(c) \/ ContinueSession(c)
           \/ Disconnect(c) \/ NewChat(c) \/ Announce(c) \/ StreamChunk(c)
           \/ ModelAnswers(c) \/ ModelFails(c) \/ StoreRefuses(c) \/ Finish(c)
    PROVE  sessions' = sessions
  BY DEF Blocked, StartSession, ContinueSession, Begins, Disconnect, NewChat, Announce,
         StreamChunk, ModelAnswers, ModelFails, StoreRefuses, Finish

\* Every step continues every stored session.
LEMMA StepsContinue ==
    ASSUME ChatInv, [Next]_vars, NEW t \in SessionIds, sessions[t] # None
    PROVE  Continues(sessions'[t], sessions[t])
  <1>1. sessions[t].turns \in Seq(Messages)
    BY DEF ChatInv, TypeOK, Session
  <1>2. sessions' = sessions => Continues(sessions'[t], sessions[t])
    BY <1>1 DEF Continues
  <1>3. CASE UNCHANGED vars
    BY <1>2, <1>3 DEF vars
  <1>4. CASE Next
    BY <1>2, <1>4, StoringContinues, OthersStoreNothing DEF Next, HandlerStep
  <1> QED
    BY <1>3, <1>4

--------------------------------------------------------------------------------
(***************************************************************************)
(* Theorems                                                                *)
(***************************************************************************)

\* The invariant of the chat handlers and the session store.
THEOREM ChatInvariance == Spec => []ChatInv
  <1> QED
    BY ChatStarts, NextKeeps, PTL DEF Spec

\* Type correctness, and a version that counts the turns: the optimistic lock
\* compares what it is meant to compare.
THEOREM ChatTypeCorrect == Spec => []TypeOK
  <1>1. ChatInv => TypeOK
    BY DEF ChatInv
  <1> QED
    BY <1>1, ChatInvariance, PTL

\* ChatService: the model answered every stored turn from exactly the turns
\* stored before it.
THEOREM HistorySafety == Spec => []TurnsSawTheirHistory
  <1>1. ChatInv => TurnsSawTheirHistory
    BY DEF ChatInv
  <1> QED
    BY <1>1, ChatInvariance, PTL

\* chat_routes.py: whoever is told that a turn is done has it in the store.
THEOREM DoneSafety == Spec => []DoneIsStored
  <1>1. ChatInv => DoneIsStored
    BY DEF ChatInv
  <1> QED
    BY <1>1, ChatInvariance, PTL

\* docs/installation.md: an error reported to the client leaves no turn.
THEOREM FailureSafety == Spec => []FailureLeavesNoTurn
  <1>1. ChatInv => FailureLeavesNoTurn
    <2> SUFFICES ASSUME ChatInv, NEW m \in Messages, told[m] \in Refused, Stored(m)
                 PROVE  FALSE
      BY DEF FailureLeavesNoTurn
    <2>1. told[m] \notin {"done", "lost", "nothing"}
      BY DEF Refused, Retryable
    <2>2. PICK c \in Clients : chat[c].pc = "finish" /\ chat[c].msg = m
      BY <2>1 DEF ChatInv, StoredWasFinished
    <2>3. told[m] = "nothing"
      BY <2>2 DEF ChatInv, ActiveHandlers
    <2> QED
      BY <2>1, <2>3
  <1> QED
    BY <1>1, ChatInvariance, PTL

\* InMemorySessionStore: no step loses or reorders a stored turn.
THEOREM GrowthSafety == Spec => HistoryOnlyGrows
  <1>1. ASSUME ChatInv, ChatInv', [Next]_vars
        PROVE  \A s \in SessionIds : sessions[s] # None =>
                  /\ sessions'[s] # None
                  /\ SubSeq(sessions'[s].turns, 1, Len(sessions[s].turns)) = sessions[s].turns
    <2> SUFFICES ASSUME NEW s \in SessionIds, sessions[s] # None
                 PROVE  /\ sessions'[s] # None
                        /\ SubSeq(sessions'[s].turns, 1, Len(sessions[s].turns))
                              = sessions[s].turns
      OBVIOUS
    <2> DEFINE old == sessions[s].turns
               new == sessions'[s].turns
    <2>1. Continues(sessions'[s], sessions[s])
      BY <1>1, StepsContinue
    <2>2. old \in Seq(Messages) /\ sessions'[s] # None
      BY <2>1, <1>1 DEF Continues, ChatInv, TypeOK, Session
    <2>3. new \in Seq(Messages)
      BY <2>2, <1>1 DEF ChatInv, TypeOK, Session
    <2>4. /\ Len(old) \in Nat /\ Len(old) <= Len(new)
          /\ \A i \in 1 .. Len(old) : new[i] = old[i]
      BY <2>1, <2>2 DEF Continues
    <2> HIDE DEF old, new
    <2>5. SubSeq(new, 1, Len(old)) = SubSeq(old, 1, Len(old))
      BY <2>2, <2>3, <2>4, SamePrefix
    <2>6. SubSeq(old, 1, Len(old)) = old
      BY <2>2
    <2> QED
      BY <2>2, <2>5, <2>6 DEF old, new
  <1> QED
    BY <1>1, ChatInvariance, PTL DEF Spec, HistoryOnlyGrows

--------------------------------------------------------------------------------
(***************************************************************************)
(* Turns are single steps                                                  *)
(***************************************************************************)

\* A message is in the abstract log when it is stored.
LEMMA LoggedIsStored ==
    ASSUME NEW m \in Messages
    PROVE  Serial!InLog(m) <=> Stored(m)
  BY DEF Serial!InLog, Stored, StoredAt, TurnLog

\* A message without a finishing handler that nobody was answered about is not
\* stored.
LEMMA NotYetStored ==
    ASSUME ChatInv, NEW m \in Messages, told[m] = "nothing",
           \A c \in Clients : chat[c].msg = m => chat[c].pc # "finish"
    PROVE  ~Stored(m)
  BY DEF ChatInv, StoredWasFinished

\* Whoever works on a message is the only one, so only the handler that has
\* stored it finds it stored.
LEMMA HandlerStored ==
    ASSUME ChatInv, NEW c \in Clients, chat[c].pc # "idle"
    PROVE  /\ chat[c].msg \in Messages /\ told[chat[c].msg] = "nothing"
           /\ Stored(chat[c].msg) <=> chat[c].pc = "finish"
  <1>1. chat[c].msg \in Messages /\ told[chat[c].msg] = "nothing"
    BY DEF ChatInv, ActiveHandlers
  <1>2. \A d \in Clients : chat[d].msg = chat[c].msg /\ chat[d].pc = "finish" => d = c
    BY DEF ChatInv, OneHandlerPerMessage
  <1>3. chat[c].pc = "finish" => Stored(chat[c].msg)
    BY DEF ChatInv, FinishedIsStored
  <1>4. chat[c].pc # "finish" => ~Stored(chat[c].msg)
    BY <1>1, <1>2, NotYetStored
  <1> QED
    BY <1>1, <1>3, <1>4

\* A message that no handler works on and nobody was answered about.
LEMMA UnusedNotStored ==
    ASSUME ChatInv, NEW m \in Unused
    PROVE  m \in Messages /\ told[m] = "nothing" /\ ~Stored(m)
  <1>1. m \in Messages /\ told[m] = "nothing" /\ \A c \in Clients : chat[c].msg # m
    BY DEF Unused
  <1> QED
    BY <1>1, NotYetStored

\* Steps that store nothing and give stored messages no other context.
LEMMA LogUnchanged ==
    ASSUME UNCHANGED sessions,
           \A m \in Messages : Stored(m) => context'[m] = context[m]
    PROVE  TurnLog' = TurnLog /\ AnsweredFrom' = AnsweredFrom
  <1>1. \A m \in Messages : Stored(m)' <=> Stored(m)
    BY DEF Stored, StoredAt
  <1> QED
    BY <1>1 DEF TurnLog, AnsweredFrom

\* Telling a client is an answer of the abstract specification.
LEMMA TellingAnswers ==
    ASSUME NEW m \in Messages, NEW what \in {"done", "lost"} \cup Refused, Tell(m, what),
           told[m] = "nothing", what = "done" => Stored(m), what \in Refused => ~Stored(m),
           UNCHANGED <<sessions, context>>
    PROVE  Serial!Answer(m)
  <1>1. TurnLog' = TurnLog /\ AnsweredFrom' = AnsweredFrom
    BY LogUnchanged
  <1>2. what \in {"lost"} \cup (IF Serial!InLog(m) THEN {"done"} ELSE Refused)
    BY LoggedIsStored
  <1> QED
    BY <1>1, <1>2 DEF Serial!Answer, Tell

\* A handler that ends tells its client.
LEMMA EndingAnswers ==
    ASSUME ChatInv, NEW c \in Clients, chat[c].pc # "idle",
           NEW what \in {"done", "lost"} \cup Refused, Ends(c, what),
           what = "done" => chat[c].pc = "finish",
           what \in Refused => chat[c].pc # "finish",
           UNCHANGED <<sessions, issued, page, context>>
    PROVE  Serial!Next
  <1>1. /\ chat[c].msg \in Messages /\ told[chat[c].msg] = "nothing"
        /\ Stored(chat[c].msg) <=> chat[c].pc = "finish"
    BY HandlerStored
  <1>2. Serial!Answer(chat[c].msg)
    BY <1>1, TellingAnswers DEF Ends
  <1> QED
    BY <1>1, <1>2 DEF Serial!Next

\* A handler that begins gives a context to a message that is not stored.
LEMMA BeginningStutters ==
    ASSUME ChatInv, NEW c \in Clients, NEW m \in Unused, NEW stream \in BOOLEAN,
           NEW s \in SessionIds, NEW base, NEW is_new \in BOOLEAN,
           Begins(c, m, stream, s, base, is_new)
    PROVE  UNCHANGED Serial!vars
  <1>1. m \in Messages /\ ~Stored(m)
    BY UnusedNotStored
  <1>2. \A n \in Messages \ {m} : context'[n] = context[n]
    BY DEF Begins, ChatInv, TypeOK
  <1>3. UNCHANGED <<sessions, told>>
    BY DEF Begins
  <1>4. \A n \in Messages : Stored(n) => context'[n] = context[n]
    BY <1>1, <1>2
  <1>5. TurnLog' = TurnLog /\ AnsweredFrom' = AnsweredFrom
    BY <1>3, <1>4, LogUnchanged
  <1> QED
    BY <1>3, <1>5 DEF Serial!vars

\* Storing the turn is the whole turn of the abstract specification: what the
\* handler read is what is stored now.
LEMMA StoringTakesTurn ==
    ASSUME ChatInv, NEW c \in Clients, StoreTurn(c)
    PROVE  Serial!TakeTurn(chat[c].msg, chat[c].session)
  <1> DEFINE m == chat[c].msg
             s == chat[c].session
             base == chat[c].base
             old == TurnLog[s]
             next == AppendTurn(base, m)
  <1>1. chat[c].pc = "store" /\ UNCHANGED <<context, told>>
    BY DEF StoreTurn
  <1>2. /\ m \in Messages /\ told[m] = "nothing" /\ ~Stored(m)
        /\ s \in SessionIds /\ base \in Session
    <2>1. chat[c].pc # "idle" /\ chat[c].pc # "finish"
      BY <1>1
    <2> QED
      BY <2>1, HandlerStored DEF ChatInv, ActiveHandlers
  <1>3. base.turns \in Seq(Messages)
    BY <1>2 DEF Session
  <1>4. old = base.turns
    <2>1. CASE sessions[s] = None
      <3>1. Len(base.turns) = 0
        BY <2>1, StoringAppends
      <3> QED
        BY <1>2, <1>3, <2>1, <3>1, EmptySeq DEF TurnLog
    <2>2. CASE sessions[s] # None
      <3>1. /\ Len(sessions[s].turns) = Len(base.turns)
            /\ \A i \in 1 .. Len(base.turns) : sessions[s].turns[i] = base.turns[i]
        BY <2>2, StoringAppends
      <3>2. sessions[s].turns \in Seq(Messages)
        BY <1>2, <2>2 DEF ChatInv, TypeOK, Session
      <3>3. sessions[s].turns = base.turns
        BY <1>3, <3>1, <3>2, SeqEqual
      <3> QED
        BY <1>2, <2>2, <3>3 DEF TurnLog
    <2> QED
      BY <2>1, <2>2
  <1>5. /\ sessions'[s] = next /\ next # None
        /\ \A t \in SessionIds \ {s} : sessions'[t] = sessions[t]
    BY StoringAppends
  <1>6. next.turns = Append(base.turns, m)
    BY DEF AppendTurn
  <1>7. TurnLog' = [TurnLog EXCEPT ![s] = Append(@, m)]
    <2>1. TurnLog'[s] = Append(TurnLog[s], m)
      <3> HIDE DEF next
      <3> QED
        BY <1>2, <1>4, <1>5, <1>6 DEF TurnLog
    <2>2. \A t \in SessionIds \ {s} : TurnLog'[t] = TurnLog[t]
      BY <1>5 DEF TurnLog
    <2>3. TurnLog = [t \in SessionIds |-> TurnLog[t]] /\ TurnLog' = [t \in SessionIds |-> TurnLog'[t]]
      BY DEF TurnLog
    <2> QED
      BY <1>2, <2>1, <2>2, <2>3
  <1>8. context[m] = History(TurnLog[s])
    <2>1. context[m] = History(base.turns)
      BY <1>1 DEF ChatInv, ContextOfBase, Reading
    <2> QED
      BY <1>4, <2>1
  <1>9. AnsweredFrom' = [AnsweredFrom EXCEPT ![m] = History(TurnLog[s])]
    <2>1. \A n \in Messages : Stored(n)' <=> Stored(n) \/ n = m
      BY StoringStoresOne
    <2>2. AnsweredFrom'[m] = History(TurnLog[s])
      BY <1>1, <1>2, <1>8, <2>1 DEF AnsweredFrom
    <2>3. \A n \in Messages \ {m} : AnsweredFrom'[n] = AnsweredFrom[n]
      BY <1>1, <2>1 DEF AnsweredFrom
    <2>4. /\ AnsweredFrom = [n \in Messages |-> AnsweredFrom[n]]
          /\ AnsweredFrom' = [n \in Messages |-> AnsweredFrom'[n]]
      BY DEF AnsweredFrom
    <2> QED
      BY <1>2, <2>2, <2>3, <2>4
  <1>10. ~Serial!InLog(m)
    BY <1>2, LoggedIsStored
  <1> QED
    BY <1>1, <1>2, <1>7, <1>9, <1>10 DEF Serial!TakeTurn

\* Every other step of a handler or a client is an answer or a stutter.
LEMMA OthersAnswerOrStutter ==
    ASSUME ChatInv, NEW c \in Clients,
           \/ Blocked(c) \/ StartSession(c) \/ ContinueSession(c) \/ Disconnect(c) \/ NewChat(c)
           \/ Announce(c) \/ StreamChunk(c) \/ ModelAnswers(c) \/ ModelFails(c)
           \/ StoreRefuses(c) \/ Finish(c)
    PROVE  Serial!Next \/ UNCHANGED Serial!vars
  <1>0. Refused \cap {"done", "lost"} = {}
        /\ {"blocked", "not_found", "invalid", "unavailable", "conflict"} \subseteq Refused
    BY DEF Refused, Retryable
  <1>1. CASE NewChat(c) \/ Announce(c) \/ StreamChunk(c) \/ ModelAnswers(c)
    <2>1. UNCHANGED <<sessions, context, told>>
      BY <1>1 DEF NewChat, Announce, StreamChunk, ModelAnswers
    <2>2. TurnLog' = TurnLog /\ AnsweredFrom' = AnsweredFrom
      BY <2>1, LogUnchanged
    <2> QED
      BY <2>1, <2>2 DEF Serial!vars
  <1>2. ASSUME NEW m \in Unused, NEW what \in Refused, Tell(m, what),
               UNCHANGED <<sessions, context>>
        PROVE  Serial!Next
    <2>1. m \in Messages /\ told[m] = "nothing" /\ ~Stored(m)
      BY UnusedNotStored
    <2>2. Serial!Answer(m)
      BY <1>0, <1>2, <2>1, TellingAnswers
    <2> QED
      BY <2>1, <2>2 DEF Serial!Next
  <1>3. CASE Blocked(c)
    BY <1>0, <1>2, <1>3 DEF Blocked
  <1>4. CASE StartSession(c)
    <2>1. PICK m \in Unused, stream \in BOOLEAN, s \in SessionIds \ issued :
             Begins(c, m, stream, s, NewSession, TRUE)
      BY <1>4 DEF StartSession
    <2> QED
      BY <2>1, BeginningStutters
  <1>5. CASE ContinueSession(c)
    <2>1. PICK m \in Unused, stream \in BOOLEAN, s \in SessionIds :
             \/ Begins(c, m, stream, s, sessions[s], FALSE)
             \/ Tell(m, "not_found") /\ UNCHANGED <<sessions, page, chat, context>>
      BY <1>5 DEF ContinueSession
    <2>2. CASE Begins(c, m, stream, s, sessions[s], FALSE)
      BY <2>2, BeginningStutters
    <2>3. CASE Tell(m, "not_found") /\ UNCHANGED <<sessions, page, chat, context>>
      BY <1>0, <1>2, <2>3
    <2> QED
      BY <2>1, <2>2, <2>3
  <1>6. CASE Disconnect(c)
    <2>1. chat[c].pc # "idle" /\ Ends(c, "lost") /\ UNCHANGED <<sessions, issued, page, context>>
      BY <1>6 DEF Disconnect
    <2> QED
      BY <1>0, <2>1, EndingAnswers
  <1>7. CASE ModelFails(c)
    <2>1. PICK what \in {"unavailable", "invalid"} : Ends(c, what)
      BY <1>7 DEF ModelFails
    <2>2. chat[c].pc = "model" /\ UNCHANGED <<sessions, issued, page, context>>
      BY <1>7 DEF ModelFails
    <2> QED
      BY <1>0, <2>1, <2>2, EndingAnswers
  <1>8. CASE StoreRefuses(c)
    <2>1. PICK what \in {"invalid", "conflict"} : Ends(c, what)
      BY <1>8 DEF StoreRefuses
    <2>2. chat[c].pc = "store" /\ UNCHANGED <<sessions, issued, page, context>>
      BY <1>8 DEF StoreRefuses
    <2> QED
      BY <1>0, <2>1, <2>2, EndingAnswers
  <1>9. CASE Finish(c)
    <2>1. chat[c].pc = "finish" /\ Ends(c, "done") /\ UNCHANGED <<sessions, issued, page, context>>
      BY <1>9 DEF Finish
    <2> QED
      BY <1>0, <2>1, EndingAnswers
  <1> QED
    BY <1>1, <1>3, <1>4, <1>5, <1>6, <1>7, <1>8, <1>9

\* ChatService over InMemorySessionStore: however requests interleave, stop and
\* fail, each stored turn is a single step that read, answered and stored.
THEOREM ChatIsSerial == Spec => ImplementsSerialChat
  <1>1. Init => Serial!Init
    <2> SUFFICES ASSUME Init PROVE Serial!Init
      OBVIOUS
    <2>1. \A m \in Messages : ~Stored(m)
      BY DEF Init, Stored
    <2> QED
      BY <2>1 DEF Init, Serial!Init, TurnLog, AnsweredFrom
  <1>2. ChatInv /\ [Next]_vars => [Serial!Next]_(Serial!vars)
    <2> SUFFICES ASSUME ChatInv, [Next]_vars PROVE Serial!Next \/ UNCHANGED Serial!vars
      OBVIOUS
    <2>1. CASE UNCHANGED vars
      <3>1. UNCHANGED <<sessions, context, told>>
        BY <2>1 DEF vars
      <3>2. TurnLog' = TurnLog /\ AnsweredFrom' = AnsweredFrom
        BY <3>1, LogUnchanged
      <3> QED
        BY <3>1, <3>2 DEF Serial!vars
    <2>2. ASSUME NEW c \in Clients, StoreTurn(c) PROVE Serial!Next
      <3>1. chat[c].msg \in Messages /\ chat[c].session \in SessionIds
        BY <2>2 DEF StoreTurn, ChatInv, ActiveHandlers
      <3> QED
        BY <2>2, <3>1, StoringTakesTurn DEF Serial!Next
    <2> QED
      BY <2>1, <2>2, OthersAnswerOrStutter DEF Next, HandlerStep
  <1> QED
    BY ChatInvariance, <1>1, <1>2, PTL DEF Spec, ImplementsSerialChat, Serial!Spec

================================================================================
