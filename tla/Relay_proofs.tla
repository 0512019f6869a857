---------------------------- MODULE Relay_proofs ----------------------------
(***************************************************************************)
(* Relay for any number of servers, calls, daemons, messages and crashes:  *)
(* types, what can become of mail, and when it is handled twice.           *)
(***************************************************************************)
EXTENDS Relay, TLAPS

LEMMA NodeTyped ==
    /\ \A t \in Threads : NodeOf(t) \in Nodes
    /\ \A t \in Calls : NodeOf(t) \in Servers
    /\ \A t \in Daemons : NodeOf(t) = t
  BY ServerType, CallsDisjoint DEF NodeOf, Nodes, Threads

LEMMA InitTyped == Init => TypeOK
  BY HeartbeatType, MaxCrashesType DEF Init, TypeOK

LEMMA StepTyped == TypeOK /\ [Next]_vars => TypeOK'
<1> SUFFICES ASSUME TypeOK, [Next]_vars PROVE TypeOK'
  OBVIOUS
<1> USE HeartbeatType, MaxCrashesType, NodeTyped DEF TypeOK, diskVars, drainVars, history
<1>1. ASSUME NEW t \in Threads, Announce(t) PROVE TypeOK'
  BY <1>1 DEF Announce
<1>2. ASSUME NEW t \in Threads, NEW r \in Nodes, NEW m \in Messages, SendCheck(t, r, m) PROVE TypeOK'
  BY <1>2 DEF SendCheck, Goto, Live
<1>3. ASSUME NEW t \in Threads, SendWrite(t) PROVE TypeOK'
  BY <1>3 DEF SendWrite, Goto
<1>4. ASSUME NEW t \in Threads, SendError(t) PROVE TypeOK'
  BY <1>4 DEF SendError, Goto
<1>5. ASSUME NEW t \in Threads, ListBegin(t) PROVE TypeOK'
  BY <1>5 DEF ListBegin, Goto
<1>6. ASSUME NEW t \in Threads, NEW k \in Nodes, ListRead(t, k) PROVE TypeOK'
  BY <1>6 DEF ListRead, Goto
<1>7. ASSUME NEW t \in Threads, Prune(t) PROVE TypeOK'
  BY <1>7 DEF Prune, Goto
<1>8. ASSUME NEW t \in Threads, PruneInbox(t) PROVE TypeOK'
  <2>1. PICK left \in SUBSET inbox[target[t]] : inbox' = [inbox EXCEPT ![target[t]] = left]
    BY <1>8 DEF PruneInbox
  <2>2. inbox' \in [Nodes -> SUBSET Messages]
    <3>1. CASE target[t] \in Nodes
      BY <2>1, <3>1
    <3>2. CASE target[t] \notin Nodes
      BY <2>1, <3>2
    <3> QED BY <3>1, <3>2
  <2> QED BY <1>8, <2>2 DEF PruneInbox, Goto
<1>9. ASSUME NEW t \in Threads, Poll(t) PROVE TypeOK'
  BY <1>9 DEF Poll, Goto
<1>10. ASSUME NEW t \in Threads, Drain(t) PROVE TypeOK'
  BY <1>10 DEF Drain, Goto
<1>11. ASSUME NEW t \in Threads, NEW m \in Messages, ReadMail(t, m) PROVE TypeOK'
  BY <1>11 DEF ReadMail, Goto
<1>12. ASSUME NEW t \in Threads, RemoveMail(t) PROVE TypeOK'
  BY <1>12 DEF RemoveMail, Goto
<1>13. ASSUME NEW t \in Threads, ListReturn(t) PROVE TypeOK'
  BY <1>13 DEF ListReturn, Goto
<1>14. ASSUME NEW t \in Threads, DispatchBegin(t) PROVE TypeOK'
  BY <1>14 DEF DispatchBegin, Goto
<1>15. ASSUME NEW t \in Threads, NEW m \in Messages, Dispatch(t, m) PROVE TypeOK'
  BY <1>15 DEF Dispatch
<1>16. ASSUME NEW t \in Threads, DispatchEnd(t) PROVE TypeOK'
  BY <1>16 DEF DispatchEnd, Goto
<1>17. ASSUME NEW n \in Nodes, Expire(n) PROVE TypeOK'
  BY <1>17 DEF Expire
<1>18. ASSUME NEW n \in Nodes, Crash(n) PROVE TypeOK'
  BY <1>18 DEF Crash, Dropped
<1>19. CASE UNCHANGED vars
  BY <1>19 DEF vars
<1> QED
  BY <1>1, <1>2, <1>3, <1>4, <1>5, <1>6, <1>7, <1>8, <1>9, <1>10, <1>11, <1>12, <1>13, <1>14, <1>15, <1>16, <1>17, <1>18, <1>19
  DEF Next, Work

\* Every variable of the relay keeps its type; the daemon's poll counter wraps.
THEOREM TypeCorrect == Safety => []TypeOK
  BY InitTyped, StepTyped, PTL DEF Safety

-----------------------------------------------------------------------------

\* A message not yet delivered is in one sender's hands at most; one that has
\* been is found nowhere but with its recipient.
Addressed ==
    /\ \A t \in Threads : pc[t] \in {"send", "prune", "pruneInbox"} => target[t] \in Nodes
    /\ \A t \in Threads : pc[t] # "send" => letter[t] = {}
    /\ \A t \in Threads : \A m \in letter[t] : to[m] = Nobody
    /\ \A t, u \in Threads : \A m \in Messages : m \in letter[t] /\ m \in letter[u] => t = u
    /\ \A n \in Nodes : \A m \in inbox[n] : to[m] = n
    /\ \A t \in Threads : \A m \in mail[t] \cup file[t] \cup hand[t] : to[m] = NodeOf(t)
    /\ \A m \in handled \cup shared : to[m] # Nobody

LEMMA StepAddressed == TypeOK /\ Addressed /\ [Next]_vars => Addressed'
<1> SUFFICES ASSUME TypeOK, Addressed, [Next]_vars PROVE Addressed'
  OBVIOUS
<1> USE NobodyIsNoNode, NodeTyped DEF TypeOK, diskVars, drainVars, history, Addressed
<1>1. ASSUME NEW t \in Threads, Announce(t) PROVE Addressed'
  BY <1>1 DEF Announce
<1>2. ASSUME NEW t \in Threads, NEW r \in Nodes, NEW m \in Messages, SendCheck(t, r, m) PROVE Addressed'
  BY <1>2 DEF SendCheck, Goto, Live
<1>3. ASSUME NEW t \in Threads, SendWrite(t) PROVE Addressed'
  BY <1>3 DEF SendWrite, Goto
<1>4. ASSUME NEW t \in Threads, SendError(t) PROVE Addressed'
  BY <1>4 DEF SendError, Goto
<1>5. ASSUME NEW t \in Threads, ListBegin(t) PROVE Addressed'
  BY <1>5 DEF ListBegin, Goto
<1>6. ASSUME NEW t \in Threads, NEW k \in Nodes, ListRead(t, k) PROVE Addressed'
  BY <1>6 DEF ListRead, Goto
<1>7. ASSUME NEW t \in Threads, Prune(t) PROVE Addressed'
  BY <1>7 DEF Prune, Goto
<1>8. ASSUME NEW t \in Threads, PruneInbox(t) PROVE Addressed'
  BY <1>8 DEF PruneInbox, Goto
<1>9. ASSUME NEW t \in Threads, Poll(t) PROVE Addressed'
  BY <1>9 DEF Poll, Goto
<1>10. ASSUME NEW t \in Threads, Drain(t) PROVE Addressed'
  BY <1>10 DEF Drain, Goto
<1>11. ASSUME NEW t \in Threads, NEW m \in Messages, ReadMail(t, m) PROVE Addressed'
  BY <1>11 DEF ReadMail, Goto
<1>12. ASSUME NEW t \in Threads, RemoveMail(t) PROVE Addressed'
  BY <1>12 DEF RemoveMail, Goto
<1>13. ASSUME NEW t \in Threads, ListReturn(t) PROVE Addressed'
  BY <1>13 DEF ListReturn, Goto
<1>14. ASSUME NEW t \in Threads, DispatchBegin(t) PROVE Addressed'
  BY <1>14 DEF DispatchBegin, Goto
<1>15. ASSUME NEW t \in Threads, NEW m \in Messages, Dispatch(t, m) PROVE Addressed'
  BY <1>15 DEF Dispatch
<1>16. ASSUME NEW t \in Threads, DispatchEnd(t) PROVE Addressed'
  BY <1>16 DEF DispatchEnd, Goto
<1>17. ASSUME NEW n \in Nodes, Expire(n) PROVE Addressed'
  BY <1>17 DEF Expire
<1>18. ASSUME NEW n \in Nodes, Crash(n) PROVE Addressed'
  BY <1>18 DEF Crash, Dropped
<1>19. CASE UNCHANGED vars
  BY <1>19 DEF vars
<1> QED
  BY <1>1, <1>2, <1>3, <1>4, <1>5, <1>6, <1>7, <1>8, <1>9, <1>10, <1>11, <1>12, <1>13, <1>14, <1>15, <1>16, <1>17, <1>18, <1>19
  DEF Next, Work

-----------------------------------------------------------------------------

\* The mail that counts lies in no inbox that a list may remove: whoever prunes
\* has found the owner stale, and what was there then is exposed.
SafeMail == \A n \in Nodes : \A m \in inbox[n] \ exposed : ~Condemned(n)

LEMMA StepSafe == TypeOK /\ Addressed /\ SafeMail /\ [Next]_vars => SafeMail'
<1> SUFFICES ASSUME TypeOK, Addressed, SafeMail, [Next]_vars PROVE SafeMail'
  OBVIOUS
<1> USE NodeTyped DEF TypeOK, diskVars, drainVars, history, SafeMail, Condemned
<1>1. ASSUME NEW t \in Threads, Announce(t) PROVE SafeMail'
  BY <1>1 DEF Announce
<1>2. ASSUME NEW t \in Threads, NEW r \in Nodes, NEW m \in Messages, SendCheck(t, r, m) PROVE SafeMail'
  BY <1>2 DEF SendCheck, Goto, Live
<1>3. ASSUME NEW t \in Threads, SendWrite(t) PROVE SafeMail'
  BY <1>3 DEF SendWrite, Goto
<1>4. ASSUME NEW t \in Threads, SendError(t) PROVE SafeMail'
  BY <1>4 DEF SendError, Goto
<1>5. ASSUME NEW t \in Threads, ListBegin(t) PROVE SafeMail'
  BY <1>5 DEF ListBegin, Goto
<1>6. ASSUME NEW t \in Threads, NEW k \in Nodes, ListRead(t, k) PROVE SafeMail'
  BY <1>6 DEF ListRead, Goto
<1>7. ASSUME NEW t \in Threads, Prune(t) PROVE SafeMail'
  BY <1>7 DEF Prune, Goto
<1>8. ASSUME NEW t \in Threads, PruneInbox(t) PROVE SafeMail'
  BY <1>8 DEF PruneInbox, Goto
<1>9. ASSUME NEW t \in Threads, Poll(t) PROVE SafeMail'
  BY <1>9 DEF Poll, Goto
<1>10. ASSUME NEW t \in Threads, Drain(t) PROVE SafeMail'
  BY <1>10 DEF Drain, Goto
<1>11. ASSUME NEW t \in Threads, NEW m \in Messages, ReadMail(t, m) PROVE SafeMail'
  BY <1>11 DEF ReadMail, Goto
<1>12. ASSUME NEW t \in Threads, RemoveMail(t) PROVE SafeMail'
  BY <1>12 DEF RemoveMail, Goto
<1>13. ASSUME NEW t \in Threads, ListReturn(t) PROVE SafeMail'
  BY <1>13 DEF ListReturn, Goto
<1>14. ASSUME NEW t \in Threads, DispatchBegin(t) PROVE SafeMail'
  BY <1>14 DEF DispatchBegin, Goto
<1>15. ASSUME NEW t \in Threads, NEW m \in Messages, Dispatch(t, m) PROVE SafeMail'
  BY <1>15 DEF Dispatch
<1>16. ASSUME NEW t \in Threads, DispatchEnd(t) PROVE SafeMail'
  BY <1>16 DEF DispatchEnd, Goto
<1>17. ASSUME NEW n \in Nodes, Expire(n) PROVE SafeMail'
  BY <1>17 DEF Expire
<1>18. ASSUME NEW n \in Nodes, Crash(n) PROVE SafeMail'
  BY <1>18 DEF Crash, Dropped
<1>19. CASE UNCHANGED vars
  BY <1>19 DEF vars
<1> QED
  BY <1>1, <1>2, <1>3, <1>4, <1>5, <1>6, <1>7, <1>8, <1>9, <1>10, <1>11, <1>12, <1>13, <1>14, <1>15, <1>16, <1>17, <1>18, <1>19
  DEF Next, Work

-----------------------------------------------------------------------------

\* Unless a removal failed or two calls met at its file, a message is at one
\* stage: in the inbox, also in the hands of the one call about to remove its
\* file, only in the hands of one call, or handled.
OnePlace ==
    /\ \A t \in Threads : pc[t] # "remove" => file[t] = {}
    /\ \A t \in Threads : \A m \in file[t] \cap inbox[NodeOf(t)] : m \in hand[t] \cup spoilt
    /\ \A m \in Messages \ (stuck \cup shared) :
        /\ \A n \in Nodes : m \in inbox[n] => m \notin handled
        /\ \A t \in Threads : m \in hand[t] => m \notin handled
        /\ \A t \in Threads : m \in hand[t] /\ m \in inbox[NodeOf(t)] => m \in file[t]
        /\ \A t, u \in Threads : m \in hand[t] /\ m \in hand[u] => t = u

LEMMA StepOnePlace == TypeOK /\ Addressed /\ OnePlace /\ [Next]_vars => OnePlace'
<1> SUFFICES ASSUME TypeOK, Addressed, OnePlace, [Next]_vars PROVE OnePlace'
  OBVIOUS
<1> USE NobodyIsNoNode, NodeTyped DEF TypeOK, diskVars, drainVars, history, Addressed, OnePlace
<1>1. ASSUME NEW t \in Threads, Announce(t) PROVE OnePlace'
  BY <1>1 DEF Announce
<1>2. ASSUME NEW t \in Threads, NEW r \in Nodes, NEW m \in Messages, SendCheck(t, r, m) PROVE OnePlace'
  BY <1>2 DEF SendCheck, Goto, Live
<1>3. ASSUME NEW t \in Threads, SendWrite(t) PROVE OnePlace'
  BY <1>3 DEF SendWrite, Goto
<1>4. ASSUME NEW t \in Threads, SendError(t) PROVE OnePlace'
  BY <1>4 DEF SendError, Goto
<1>5. ASSUME NEW t \in Threads, ListBegin(t) PROVE OnePlace'
  BY <1>5 DEF ListBegin, Goto
<1>6. ASSUME NEW t \in Threads, NEW k \in Nodes, ListRead(t, k) PROVE OnePlace'
  BY <1>6 DEF ListRead, Goto
<1>7. ASSUME NEW t \in Threads, Prune(t) PROVE OnePlace'
  BY <1>7 DEF Prune, Goto
<1>8. ASSUME NEW t \in Threads, PruneInbox(t) PROVE OnePlace'
  BY <1>8 DEF PruneInbox, Goto
<1>9. ASSUME NEW t \in Threads, Poll(t) PROVE OnePlace'
  BY <1>9 DEF Poll, Goto
<1>10. ASSUME NEW t \in Threads, Drain(t) PROVE OnePlace'
  BY <1>10 DEF Drain, Goto
<1>11. ASSUME NEW t \in Threads, NEW m \in Messages, ReadMail(t, m) PROVE OnePlace'
  <2> USE <1>11 DEF ReadMail, Goto
  <2>1. \A u \in Threads : pc'[u] # "remove" => file'[u] = {}
    OBVIOUS
  <2>2. \A u \in Threads : \A x \in file'[u] \cap inbox'[NodeOf(u)] : x \in hand'[u] \cup spoilt'
    OBVIOUS
  <2>3. ASSUME NEW x \in Messages, x \notin stuck' \cup shared'
        PROVE  /\ \A n \in Nodes : x \in inbox'[n] => x \notin handled'
               /\ \A u \in Threads : x \in hand'[u] => x \notin handled'
    BY <2>3
  <2>4. ASSUME NEW x \in Messages, x \notin stuck' \cup shared', NEW u \in Threads,
               x \in hand'[u], x \in inbox'[NodeOf(u)]
        PROVE  x \in file'[u]
    BY <2>4
  <2>5. ASSUME NEW x \in Messages, x \notin stuck' \cup shared',
               NEW u \in Threads, NEW v \in Threads, x \in hand'[u], x \in hand'[v], u # v
        PROVE  FALSE
    <3>1. x \in hand[u] => x # m \/ u = t \/ x \in file[u]
      BY <2>5
    <3>2. x \in hand[v] => x # m \/ v = t \/ x \in file[v]
      BY <2>5
    <3>3. ~(x \in hand[u] /\ x \in hand[v])
      BY <2>5
    <3> QED BY <2>5, <3>1, <3>2, <3>3 DEF HeldElsewhere
  <2> QED BY <2>1, <2>2, <2>3, <2>4, <2>5
<1>12. ASSUME NEW t \in Threads, RemoveMail(t) PROVE OnePlace'
  BY <1>12 DEF RemoveMail, Goto
<1>13. ASSUME NEW t \in Threads, ListReturn(t) PROVE OnePlace'
  BY <1>13 DEF ListReturn, Goto
<1>14. ASSUME NEW t \in Threads, DispatchBegin(t) PROVE OnePlace'
  BY <1>14 DEF DispatchBegin, Goto
<1>15. ASSUME NEW t \in Threads, NEW m \in Messages, Dispatch(t, m) PROVE OnePlace'
  BY <1>15 DEF Dispatch
<1>16. ASSUME NEW t \in Threads, DispatchEnd(t) PROVE OnePlace'
  BY <1>16 DEF DispatchEnd, Goto
<1>17. ASSUME NEW n \in Nodes, Expire(n) PROVE OnePlace'
  BY <1>17 DEF Expire
<1>18. ASSUME NEW n \in Nodes, Crash(n) PROVE OnePlace'
  BY <1>18 DEF Crash, Dropped
<1>19. CASE UNCHANGED vars
  BY <1>19 DEF vars
<1> QED
  BY <1>1, <1>2, <1>3, <1>4, <1>5, <1>6, <1>7, <1>8, <1>9, <1>10, <1>11, <1>12, <1>13, <1>14, <1>15, <1>16, <1>17, <1>18, <1>19
  DEF Next, Work

-----------------------------------------------------------------------------

LEMMA StepOnce ==
    TypeOK /\ Addressed /\ OnePlace /\ MailIsHandledOnce /\ [Next]_vars => MailIsHandledOnce'
<1> SUFFICES ASSUME TypeOK, Addressed, OnePlace, MailIsHandledOnce, [Next]_vars
             PROVE  MailIsHandledOnce'
  OBVIOUS
<1> USE NobodyIsNoNode, NodeTyped
    DEF TypeOK, diskVars, drainVars, history, Addressed, OnePlace, MailIsHandledOnce
<1>1. ASSUME NEW t \in Threads, Announce(t) PROVE MailIsHandledOnce'
  BY <1>1 DEF Announce
<1>2. ASSUME NEW t \in Threads, NEW r \in Nodes, NEW m \in Messages, SendCheck(t, r, m) PROVE MailIsHandledOnce'
  BY <1>2 DEF SendCheck, Goto, Live
<1>3. ASSUME NEW t \in Threads, SendWrite(t) PROVE MailIsHandledOnce'
  BY <1>3 DEF SendWrite, Goto
<1>4. ASSUME NEW t \in Threads, SendError(t) PROVE MailIsHandledOnce'
  BY <1>4 DEF SendError, Goto
<1>5. ASSUME NEW t \in Threads, ListBegin(t) PROVE MailIsHandledOnce'
  BY <1>5 DEF ListBegin, Goto
<1>6. ASSUME NEW t \in Threads, NEW k \in Nodes, ListRead(t, k) PROVE MailIsHandledOnce'
  BY <1>6 DEF ListRead, Goto
<1>7. ASSUME NEW t \in Threads, Prune(t) PROVE MailIsHandledOnce'
  BY <1>7 DEF Prune, Goto
<1>8. ASSUME NEW t \in Threads, PruneInbox(t) PROVE MailIsHandledOnce'
  BY <1>8 DEF PruneInbox, Goto
<1>9. ASSUME NEW t \in Threads, Poll(t) PROVE MailIsHandledOnce'
  BY <1>9 DEF Poll, Goto
<1>10. ASSUME NEW t \in Threads, Drain(t) PROVE MailIsHandledOnce'
  BY <1>10 DEF Drain, Goto
<1>11. ASSUME NEW t \in Threads, NEW m \in Messages, ReadMail(t, m) PROVE MailIsHandledOnce'
  <2>1. m \in shared' \ shared => to[m] \in Servers
    <3> SUFFICES ASSUME m \in shared' \ shared PROVE to[m] \in Servers
      OBVIOUS
    <3>1. PICK u \in Threads \ {t} : m \in hand[u] \cap file[u]
      BY <1>11 DEF ReadMail, HeldElsewhere
    <3>2. NodeOf(u) = NodeOf(t) /\ to[m] = NodeOf(t)
      BY <1>11, <3>1 DEF ReadMail
    <3>3. u \in Calls \/ t \in Calls
      BY <3>1, <3>2 DEF Threads
    <3> QED BY <3>2, <3>3
  <2>2. shared' \subseteq shared \cup {m} /\ stuck' = stuck /\ again' = again /\ to' = to
        /\ shared \subseteq shared'
    BY <1>11 DEF ReadMail
  <2> QED BY <2>1, <2>2
<1>12. ASSUME NEW t \in Threads, RemoveMail(t) PROVE MailIsHandledOnce'
  BY <1>12 DEF RemoveMail, Goto
<1>13. ASSUME NEW t \in Threads, ListReturn(t) PROVE MailIsHandledOnce'
  BY <1>13 DEF ListReturn, Goto
<1>14. ASSUME NEW t \in Threads, DispatchBegin(t) PROVE MailIsHandledOnce'
  BY <1>14 DEF DispatchBegin, Goto
<1>15. ASSUME NEW t \in Threads, NEW m \in Messages, Dispatch(t, m) PROVE MailIsHandledOnce'
  BY <1>15 DEF Dispatch
<1>16. ASSUME NEW t \in Threads, DispatchEnd(t) PROVE MailIsHandledOnce'
  BY <1>16 DEF DispatchEnd, Goto
<1>17. ASSUME NEW n \in Nodes, Expire(n) PROVE MailIsHandledOnce'
  BY <1>17 DEF Expire
<1>18. ASSUME NEW n \in Nodes, Crash(n) PROVE MailIsHandledOnce'
  BY <1>18 DEF Crash, Dropped
<1>19. CASE UNCHANGED vars
  BY <1>19 DEF vars
<1> QED
  BY <1>1, <1>2, <1>3, <1>4, <1>5, <1>6, <1>7, <1>8, <1>9, <1>10, <1>11, <1>12, <1>13, <1>14, <1>15, <1>16, <1>17, <1>18, <1>19
  DEF Next, Work

LEMMA StepKept ==
    TypeOK /\ Addressed /\ SafeMail /\ OnePlace /\ PresentNodeLosesNoMail /\ [Next]_vars
        => PresentNodeLosesNoMail'
<1> SUFFICES ASSUME TypeOK, Addressed, SafeMail, OnePlace, PresentNodeLosesNoMail,
                    [Next]_vars
             PROVE  PresentNodeLosesNoMail'
  OBVIOUS
<1> USE NobodyIsNoNode, NodeTyped
    DEF TypeOK, diskVars, drainVars, history, Addressed, SafeMail, PresentNodeLosesNoMail
<1>1. ASSUME NEW t \in Threads, Announce(t) PROVE PresentNodeLosesNoMail'
  BY <1>1 DEF Announce
<1>2. ASSUME NEW t \in Threads, NEW r \in Nodes, NEW m \in Messages, SendCheck(t, r, m) PROVE PresentNodeLosesNoMail'
  BY <1>2 DEF SendCheck, Goto, Live
<1>3. ASSUME NEW t \in Threads, SendWrite(t) PROVE PresentNodeLosesNoMail'
  BY <1>3 DEF SendWrite, Goto
<1>4. ASSUME NEW t \in Threads, SendError(t) PROVE PresentNodeLosesNoMail'
  BY <1>4 DEF SendError, Goto
<1>5. ASSUME NEW t \in Threads, ListBegin(t) PROVE PresentNodeLosesNoMail'
  BY <1>5 DEF ListBegin, Goto
<1>6. ASSUME NEW t \in Threads, NEW k \in Nodes, ListRead(t, k) PROVE PresentNodeLosesNoMail'
  BY <1>6 DEF ListRead, Goto
<1>7. ASSUME NEW t \in Threads, Prune(t) PROVE PresentNodeLosesNoMail'
  BY <1>7 DEF Prune, Goto
<1>8. ASSUME NEW t \in Threads, PruneInbox(t) PROVE PresentNodeLosesNoMail'
  BY <1>8 DEF PruneInbox, Goto, Condemned
<1>9. ASSUME NEW t \in Threads, Poll(t) PROVE PresentNodeLosesNoMail'
  BY <1>9 DEF Poll, Goto
<1>10. ASSUME NEW t \in Threads, Drain(t) PROVE PresentNodeLosesNoMail'
  BY <1>10 DEF Drain, Goto
<1>11. ASSUME NEW t \in Threads, NEW m \in Messages, ReadMail(t, m) PROVE PresentNodeLosesNoMail'
  BY <1>11 DEF ReadMail, Goto
<1>12. ASSUME NEW t \in Threads, RemoveMail(t) PROVE PresentNodeLosesNoMail'
  BY <1>12 DEF RemoveMail, Goto, OnePlace
<1>13. ASSUME NEW t \in Threads, ListReturn(t) PROVE PresentNodeLosesNoMail'
  BY <1>13 DEF ListReturn, Goto
<1>14. ASSUME NEW t \in Threads, DispatchBegin(t) PROVE PresentNodeLosesNoMail'
  BY <1>14 DEF DispatchBegin, Goto
<1>15. ASSUME NEW t \in Threads, NEW m \in Messages, Dispatch(t, m) PROVE PresentNodeLosesNoMail'
  BY <1>15 DEF Dispatch
<1>16. ASSUME NEW t \in Threads, DispatchEnd(t) PROVE PresentNodeLosesNoMail'
  BY <1>16 DEF DispatchEnd, Goto
<1>17. ASSUME NEW n \in Nodes, Expire(n) PROVE PresentNodeLosesNoMail'
  BY <1>17 DEF Expire
<1>18. ASSUME NEW n \in Nodes, Crash(n) PROVE PresentNodeLosesNoMail'
  BY <1>18 DEF Crash, Dropped
<1>19. CASE UNCHANGED vars
  BY <1>19 DEF vars
<1> QED
  BY <1>1, <1>2, <1>3, <1>4, <1>5, <1>6, <1>7, <1>8, <1>9, <1>10, <1>11, <1>12, <1>13, <1>14, <1>15, <1>16, <1>17, <1>18, <1>19
  DEF Next, Work

-----------------------------------------------------------------------------

\* The inductive invariant.
IInv ==
    /\ TypeOK
    /\ Addressed
    /\ SafeMail
    /\ OnePlace
    /\ MailIsHandledOnce
    /\ PresentNodeLosesNoMail

LEMMA Inductive == Safety => []IInv
<1>1. Init => IInv
  BY InitTyped, NobodyIsNoNode
  DEF Init, IInv, Addressed, SafeMail, OnePlace, MailIsHandledOnce, PresentNodeLosesNoMail
<1>2. IInv /\ [Next]_vars => IInv'
  BY StepTyped, StepAddressed, StepSafe, StepOnePlace, StepOnce, StepKept DEF IInv
<1> QED BY <1>1, <1>2, PTL DEF Safety

\* drain_inbox hands a message out twice only after a failed removal or to two
\* overlapping calls of one server, never to a daemon whose removals succeed.
THEOREM MailStaysHandledOnce == Safety => []MailIsHandledOnce
<1>1. IInv => MailIsHandledOnce
  BY DEF IInv
<1> QED BY <1>1, Inductive, PTL

\* The lazy pruning of relay.list, racing with senders, announcements and drains,
\* takes no mail but what was in, or written to, the inbox of a stale node or of
\* one under removal; and drains lose only what they could not read or what the
\* end of the process took.
THEOREM PresentNodesKeepMail == Safety => []PresentNodeLosesNoMail
<1>1. IInv => PresentNodeLosesNoMail
  BY DEF IInv
<1> QED BY <1>1, Inductive, PTL
=============================================================================
