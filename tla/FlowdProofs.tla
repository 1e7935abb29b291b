----------------------------- MODULE FlowdProofs -----------------------------
(***************************************************************************)
(* Proofs about the flowd worker: the log files keep their layout (one    *)
(* header at the start, records after it) and the worker only ever writes *)
(* flows into a file whose header start_log wrote or verified, and a      *)
(* reopen request is never forgotten, whatever signals, rotations,        *)
(* reconfigurations, monitor exits and restarts happen.                   *)
(***************************************************************************)
EXTENDS Flowd, PeerRegistryLemmas, SequenceTheorems, TLAPS

(***************************************************************************)
(* The invariant the step proofs rest on.                                 *)
(***************************************************************************)

(* The types of the variables that the log invariants read.               *)
LogTypeOK ==
    /\ pc \in Locs
    /\ reopen_flag \in {0, 1}
    /\ logGen \in 0..MaxGen
    /\ files \in [1..MaxGen -> Seq(Items)]
    /\ cur \in 1..MaxGen
    /\ reopenWant \in 1..MaxGen

(* A log file as start_log and process_flow leave it: a header, complete  *)
(* or torn, then records only; nothing after a torn header.               *)
Headed(f) ==
    /\ f # <<>> /\ f[1] \in {"H", "h"} /\ \A i \in 2..Len(f) : f[i] \in {"R", "r"}
    /\ f[1] = "h" => Len(f) = 1

(* log_fd, when open, refers to a file that starts with a complete header. *)
LogOpenOnHeader == logGen # 0 => files[logGen] # <<>> /\ files[logGen][1] = "H"

(* Past start_log in an iteration, log_fd is open.                         *)
OpenPastStartLog == pc \in {"info", "poll", "inpoll", "sock"} => logGen # 0

(* An open log_fd with no reopen pending refers to the file that was at   *)
(* the log path at the last request, or a newer one; and the log path     *)
(* never goes back to an older file.                                       *)
OpenOnRequested ==
    /\ logGen # 0 /\ reopen_flag = 0 => logGen >= reopenWant
    /\ reopenWant <= cur

LInv ==
    /\ LogTypeOK
    /\ \A g \in 1..MaxGen : files[g] # <<>> => Headed(files[g])
    /\ LogOpenOnHeader
    /\ OpenPastStartLog
    /\ OpenOnRequested

(***************************************************************************)
(* Appending to a log file.                                               *)
(***************************************************************************)

(* The records process_flow appends are whole records.                    *)
LEMMA RecordsLemma ==
    ASSUME NEW k \in Nat
    PROVE  Records(k) \in Seq({"R"})
BY DEF Records

(* Records appended after a complete header keep the file headed, and its *)
(* first item.                                                             *)
LEMMA HeadedAppendLemma ==
    ASSUME NEW f \in Seq(Items), Headed(f), f[1] = "H", NEW r \in Seq({"R", "r"})
    PROVE  /\ f \o r \in Seq(Items)
           /\ Headed(f \o r)
           /\ (f \o r)[1] = f[1]
<1>1. r \in Seq(Items)
  BY DEF Items
<1>2. /\ f \o r \in Seq(Items)
      /\ Len(f \o r) = Len(f) + Len(r)
      /\ \A i \in 1..Len(f) + Len(r) :
            (f \o r)[i] = IF i <= Len(f) THEN f[i] ELSE r[i - Len(f)]
  BY <1>1, ConcatProperties
<1>3. Len(f) >= 1
  BY EmptySeq DEF Headed
<1> QED BY <1>2, <1>3 DEF Headed

(* A torn record after whole ones is one append of both.                  *)
LEMMA TornAppendLemma ==
    ASSUME NEW f \in Seq(Items), NEW r \in Seq(Items)
    PROVE  (f \o r) \o <<"r">> = f \o (r \o <<"r">>)
<1>1. <<"r">> \in Seq(Items)
  BY DEF Items
<1> QED BY <1>1, ConcatAssociative

(* A count taken from an interval that starts at 0 is a natural number.  *)
LEMMA RangeNatLemma ==
    ASSUME NEW x, NEW i \in 0..x
    PROVE  i \in Nat /\ \A j \in 1..i : j - 1 \in Nat
OBVIOUS

(* The header start_log writes into an empty file.                        *)
LEMMA HeaderWriteLemma ==
    ASSUME NEW f \in Seq(Items), f = <<>>, NEW h \in {"H", "h"}
    PROVE  /\ f \o <<h>> \in Seq(Items)
           /\ Headed(f \o <<h>>)
           /\ (f \o <<h>>)[1] = h
<1>1. f \o <<h>> = <<h>>
  OBVIOUS
<1> QED BY <1>1 DEF Headed, Items

(***************************************************************************)
(* The invariant holds initially and is kept by every step.               *)
(***************************************************************************)

LEMMA InitLInv == Init => LInv
<1> SUFFICES ASSUME Init PROVE LInv
  OBVIOUS
<1>1. MaxGen \in Nat \ {0}
  BY FlowdAssumption
<1> QED BY <1>1 DEF Init, ProcessStart, LInv, LogTypeOK, Locs, LogOpenOnHeader,
                   OpenPastStartLog, OpenOnRequested

(* The steps that leave the log state alone: pc may move, but not into    *)
(* the part of the loop that needs an open log_fd.                         *)
LEMMA FrameLInv ==
    ASSUME LInv, UNCHANGED <<logGen, files, cur, reopen_flag, reopenWant>>,
           pc' \in Locs, pc' \in {"info", "poll", "inpoll", "sock"} => logGen # 0
    PROVE  LInv'
BY DEF LInv, LogTypeOK, LogOpenOnHeader, OpenPastStartLog, OpenOnRequested

(* Records appended to the open log keep the invariant.                    *)
LEMMA AppendLInv ==
    ASSUME LInv, logGen # 0, NEW r \in Seq({"R", "r"}),
           files' = [files EXCEPT ![logGen] = files[logGen] \o r],
           UNCHANGED <<logGen, reopen_flag, cur, reopenWant>>, pc' \in Locs
    PROVE  LInv'
<1>1. /\ logGen \in 1..MaxGen /\ files[logGen] \in Seq(Items)
      /\ Headed(files[logGen]) /\ files[logGen][1] = "H"
  BY DEF LInv, LogTypeOK, LogOpenOnHeader
<1>2. /\ files[logGen] \o r \in Seq(Items)
      /\ Headed(files[logGen] \o r)
      /\ (files[logGen] \o r)[1] = files[logGen][1]
  BY <1>1, HeadedAppendLemma
<1>3. files'[logGen] # <<>> /\ files'[logGen][1] = "H"
  BY <1>1, <1>2 DEF LInv, LogTypeOK, Headed
<1> HIDE DEF Headed
<1> QED BY <1>1, <1>2, <1>3 DEF LInv, LogTypeOK, LogOpenOnHeader, OpenPastStartLog,
                                OpenOnRequested

LEMMA NextLInv == LInv /\ [Next]_vars => LInv'
<1> SUFFICES ASSUME LInv, [Next]_vars PROVE LInv'
  OBVIOUS
<1> USE FlowdAssumption DEF LInv, LogTypeOK, Locs
<1>1. CASE LoopTest
  BY <1>1, FrameLInv DEF LoopTest, envVars, Locs
<1>2. CASE ReopenCheck
  <2>1. /\ pc' = "reconf" /\ UNCHANGED <<files, cur, reopenWant>>
    BY <1>2 DEF ReopenCheck, envVars
  <2>2. CASE reopen_flag = 1 /\ logGen # 0
    <3>1. logGen' = 0 /\ reopen_flag' = 0
      BY <1>2, <2>2 DEF ReopenCheck
    <3> QED BY <2>1, <3>1 DEF LogOpenOnHeader, OpenPastStartLog, OpenOnRequested
  <2>3. CASE ~(reopen_flag = 1 /\ logGen # 0)
    <3>1. UNCHANGED <<logGen, reopen_flag>>
      BY <1>2, <2>3 DEF ReopenCheck
    <3> QED BY <2>1, <3>1, FrameLInv DEF OpenPastStartLog
  <2> QED BY <2>2, <2>3
<1>3. CASE ReconfCheck
  BY <1>3, FrameLInv DEF ReconfCheck, envVars, Locs
<1>4. CASE ReconfClear
  BY <1>4, FrameLInv DEF ReconfClear, envVars, Locs
<1>5. CASE StartLog
  <2>1. pc = "startlog" /\ UNCHANGED <<reopen_flag, cur, reopenWant>>
    BY <1>5 DEF StartLog
  <2>2. ASSUME UNCHANGED <<logGen, files>>, pc' \in {"info", "dead"},
               pc' = "info" => logGen # 0
        PROVE  LInv'
    BY <2>1, <2>2, FrameLInv
  <2>3. ASSUME logGen = 0, LogIsNew(files[cur]), NEW h \in {"H", "h"},
               files' = [files EXCEPT ![cur] = files[cur] \o <<h>>],
               \/ h = "H" /\ logGen' = cur /\ pc' = "info"
               \/ h = "h" /\ logGen' = logGen /\ pc' = "dead"
        PROVE  LInv'
    <3>1. files[cur] = <<>>
      BY <2>3, EmptySeq DEF LogIsNew
    <3>2. /\ files[cur] \o <<h>> \in Seq(Items)
          /\ Headed(files[cur] \o <<h>>)
          /\ (files[cur] \o <<h>>)[1] = h
      BY <3>1, HeaderWriteLemma
    <3>3. files'[cur] # <<>>
      BY <2>3, <3>2 DEF Headed
    <3> HIDE DEF Headed
    <3> QED BY <2>1, <2>3, <3>2, <3>3 DEF LogOpenOnHeader, OpenPastStartLog,
                                          OpenOnRequested
  <2>4. ASSUME logGen = 0, ~LogIsNew(files[cur]), HeaderValid(files[cur]),
               UNCHANGED files, logGen' = cur, pc' = "info"
        PROVE  LInv'
    <3>1. files[cur] # <<>> /\ files[cur][1] = "H"
      BY <2>4 DEF LogIsNew, HeaderValid
    <3> QED BY <2>1, <2>4, <3>1 DEF LogOpenOnHeader, OpenPastStartLog,
                                    OpenOnRequested
  <2> QED BY <1>5, <2>2, <2>3, <2>4, Zenon DEF StartLog
<1>6. CASE InfoCheck
  BY <1>6, FrameLInv DEF InfoCheck, envVars, Locs, OpenPastStartLog
<1>7. CASE EnterPoll
  BY <1>7, FrameLInv DEF EnterPoll, envVars, Locs, OpenPastStartLog
<1>8. CASE PollReturn
  BY <1>8, FrameLInv DEF PollReturn, envVars, Locs, OpenPastStartLog
<1>9. ASSUME NEW s \in Socks, ProcessInput(s) PROVE LInv'
  <2>1. /\ pc = "sock" /\ logGen # 0
        /\ UNCHANGED <<logGen, reopen_flag, cur, reopenWant>>
        /\ pc' \in {"top", "sock", "dead"}
    BY <1>9 DEF ProcessInput, OpenPastStartLog
  <2>2. \/ UNCHANGED files
        \/ \E acc \in 0..Len(FlowOffsets(Head(net[s]).version, Head(net[s]).nflows)) :
              \/ files' = [files EXCEPT ![logGen] = @ \o Records(acc)]
              \/ \E j \in 1..acc :
                    files' = [files EXCEPT ![logGen] = @ \o Records(j - 1) \o <<"r">>]
    BY <1>9, Zenon DEF ProcessInput
  <2>3. \/ UNCHANGED files
        \/ \E k \in Nat : files' = [files EXCEPT ![logGen] = files[logGen] \o Records(k)]
        \/ \E k \in Nat : files' = [files EXCEPT ![logGen] =
                                        (files[logGen] \o Records(k)) \o <<"r">>]
    <3>1. ASSUME NEW acc \in 0..Len(FlowOffsets(Head(net[s]).version, Head(net[s]).nflows))
          PROVE  acc \in Nat /\ \A j \in 1..acc : j - 1 \in Nat
      BY RangeNatLemma
    <3> QED BY <2>2, <3>1
  <2>4. CASE UNCHANGED files
    BY <2>1, <2>4, FrameLInv
  <2>5. ASSUME NEW k \in Nat,
               files' = [files EXCEPT ![logGen] = files[logGen] \o Records(k)]
        PROVE  LInv'
    <3>1. Records(k) \in Seq({"R", "r"})
      BY DEF Records
    <3> QED BY <2>1, <2>5, <3>1, AppendLInv
  <2>6. ASSUME NEW k \in Nat,
               files' = [files EXCEPT ![logGen] = (files[logGen] \o Records(k)) \o <<"r">>]
        PROVE  LInv'
    <3>1. /\ files[logGen] \in Seq(Items) /\ Records(k) \in Seq(Items)
          /\ <<"r">> \in Seq(Items) /\ Records(k) \in Seq({"R", "r"})
      BY <2>1 DEF Records, Items
    <3>2. (files[logGen] \o Records(k)) \o <<"r">> = files[logGen] \o (Records(k) \o <<"r">>)
      BY <3>1, TornAppendLemma
    <3>3. Records(k) \o <<"r">> \in Seq({"R", "r"})
      <4>1. <<"r">> \in Seq({"R", "r"})
        OBVIOUS
      <4> QED BY <3>1, <4>1, ConcatProperties
    <3> QED BY <2>1, <2>6, <3>2, <3>3, AppendLInv
  <2> QED BY <2>3, <2>4, <2>5, <2>6
<1>10. ASSUME NEW sig \in Signals, Signal(sig) PROVE LInv'
  BY <1>10 DEF Signal, Signals, LogOpenOnHeader, OpenPastStartLog, OpenOnRequested
<1>11. ASSUME NEW s \in Socks, NEW d \in Dgrams, Send(s, d) PROVE LInv'
  <2>1. UNCHANGED <<logGen, files, cur, reopen_flag, reopenWant, pc>>
    BY <1>11 DEF Send, loopVars
  <2> QED BY <2>1, FrameLInv DEF OpenPastStartLog
<1>12. CASE Rotate
  BY <1>12 DEF Rotate, loopVars, Locs, LogOpenOnHeader, OpenPastStartLog,
               OpenOnRequested
<1>13. CASE EditConfig
  <2>1. UNCHANGED <<logGen, files, cur, reopen_flag, reopenWant, pc>>
    BY <1>13 DEF EditConfig, loopVars
  <2> QED BY <2>1, FrameLInv DEF OpenPastStartLog
<1>14. CASE MonitorExit
  <2>1. UNCHANGED <<logGen, files, cur, reopen_flag, reopenWant, pc>>
    BY <1>14 DEF MonitorExit, loopVars
  <2> QED BY <2>1, FrameLInv DEF OpenPastStartLog
<1>15. CASE Restart
  BY <1>15 DEF Restart, Locs, LogOpenOnHeader, OpenPastStartLog, OpenOnRequested
<1>16. CASE UNCHANGED vars
  <2>1. UNCHANGED <<logGen, files, cur, reopen_flag, reopenWant, pc>>
    BY <1>16 DEF vars, loopVars, envVars
  <2> QED BY <2>1, FrameLInv DEF OpenPastStartLog
<1> QED BY <1>1, <1>2, <1>3, <1>4, <1>5, <1>6, <1>7, <1>8, <1>9, <1>10,
           <1>11, <1>12, <1>13, <1>14, <1>15, <1>16 DEF Next, Loop, Env

(***************************************************************************)
(* The registry inside the worker: process_input's calls keep it          *)
(* consistent, with the datagram the socket delivered.                    *)
(***************************************************************************)

(* Every socket poll reported readable still has a datagram queued while  *)
(* the worker goes through them: only process_input on that socket takes  *)
(* one, and it removes the socket from the set.                           *)
ReadableNonEmpty == pc = "sock" => \A r \in revents : net[r] # <<>>

RInv == TypeOK /\ RegistryConsistent /\ ReadableNonEmpty

(* find_peer, or new_peer when the source is not known yet.               *)
FoundOrNew(P, a, t) == IF FindPeer(P, a) THEN P ELSE NewPeer(P, a, t)

LEMMA FoundOrNewLemma ==
    ASSUME NEW P \in Registry, ConsistentRegistry(P), NEW a \in Addr, NEW t \in Nat
    PROVE  /\ FoundOrNew(P, a, t) \in Registry
           /\ ConsistentRegistry(FoundOrNew(P, a, t))
           /\ a \in FoundOrNew(P, a, t).tree
<1>1. CASE a \in P.tree
  BY <1>1 DEF FoundOrNew, FindPeer
<1>2. CASE a \notin P.tree
  <2>1. MakeRoom(P) \in Registry
    BY MakeRoomLemma
  <2>2. /\ NewPeer(P, a, t).tree = MakeRoom(P).tree \cup {a}
        /\ NewPeer(P, a, t).lru = <<a>> \o MakeRoom(P).lru
    BY <2>1, NewPeerShapeLemma
  <2> QED BY <1>2, <2>2, NewPeerLemma DEF FoundOrNew, FindPeer
<1> QED BY <1>1, <1>2

(* main()'s bzero'd registry.                                              *)
LEMMA EmptyRegistryLemma ==
    EmptyRegistry \in Registry /\ ConsistentRegistry(EmptyRegistry)
<1>1. EmptyRegistry \in Registry
  BY DEF EmptyRegistry, Registry, ZeroPeer, PeerState
<1>2. Range(<<>>) = {} /\ IsInjective(<<>>)
  BY DEF Range, IsInjective
<1> QED BY <1>1, <1>2, MaxPeersAssumption DEF ConsistentRegistry, EmptyRegistry

LEMMA InitRInv == Init => RInv
<1> SUFFICES ASSUME Init PROVE RInv
  OBVIOUS
<1>1. LInv
  BY InitLInv
<1> QED BY <1>1, EmptyRegistryLemma, FlowdAssumption
        DEF Init, ProcessStart, RInv, TypeOK, LInv, LogTypeOK, RegistryConsistent,
            ReadableNonEmpty

(* The registry calls of process_input on socket s.                        *)
LEMMA ProcessInputRegistry ==
    ASSUME TypeOK, RegistryConsistent, ReadableNonEmpty,
           NEW s \in Socks, ProcessInput(s)
    PROVE  /\ peers' \in Registry /\ ConsistentRegistry(peers')
           /\ net' \in [Socks -> Seq(Dgrams)] /\ revents' \subseteq Socks
           /\ ReadableNonEmpty'
<1> DEFINE d == Head(net[s])
<1>1. /\ pc = "sock" /\ s \in revents /\ net[s] \in Seq(Dgrams) /\ net[s] # <<>>
      /\ net' = [net EXCEPT ![s] = Tail(net[s])] /\ revents' = revents \ {s}
      /\ pc' = "sock" => revents' # {}
  BY DEF ProcessInput, TypeOK, ReadableNonEmpty
<1>2. /\ d \in Dgrams /\ Tail(net[s]) \in Seq(Dgrams)
  BY <1>1, HeadTailProperties
<1>3. d.src \in Addr /\ d.version \in Nat /\ d.nflows \in Nat
  BY <1>2, FlowdAssumption
<1>4. \E t1, t2 \in Times :
         \/ peers' = CountInvalid(FoundOrNew(peers, d.src, t1), d.src)
         \/ peers' = FoundOrNew(peers, d.src, t1)
         \/ peers' = UpdatePeer(FoundOrNew(peers, d.src, t1), d.src, d.nflows, d.version, t2)
  BY Zenon DEF ProcessInput, FoundOrNew
<1>5. PICK t1, t2 \in Times :
         \/ peers' = CountInvalid(FoundOrNew(peers, d.src, t1), d.src)
         \/ peers' = FoundOrNew(peers, d.src, t1)
         \/ peers' = UpdatePeer(FoundOrNew(peers, d.src, t1), d.src, d.nflows, d.version, t2)
  BY <1>4
<1>6. t1 \in Nat /\ t2 \in Nat
  BY TimesAssumption
<1> DEFINE P1 == FoundOrNew(peers, d.src, t1)
<1>7. P1 \in Registry /\ ConsistentRegistry(P1) /\ d.src \in P1.tree
  BY <1>3, <1>6, FoundOrNewLemma DEF TypeOK, RegistryConsistent
<1> HIDE DEF P1, d
<1>8. peers' \in Registry /\ ConsistentRegistry(peers')
  <2>1. CASE peers' = CountInvalid(P1, d.src)
    BY <1>7, <2>1, CountInvalidLemma
  <2>2. CASE peers' = P1
    BY <1>7, <2>2
  <2>3. CASE peers' = UpdatePeer(P1, d.src, d.nflows, d.version, t2)
    BY <1>3, <1>6, <1>7, <2>3, UpdatePeerLemma
  <2> QED BY <1>5, <2>1, <2>2, <2>3 DEF P1
<1> QED BY <1>1, <1>2, <1>8 DEF TypeOK, ReadableNonEmpty

(* The part of TypeOK that LInv does not already give.                    *)
RestTypeOK ==
    /\ exit_flag \in {0, 2, 15}
    /\ reconf_flag \in {0, 1} /\ info_flag \in {0, 1}
    /\ net \in [Socks -> Seq(Dgrams)]
    /\ revents \subseteq Socks
    /\ monitorAlive \in BOOLEAN
    /\ cfgFile \in [ver : 1..MaxCfg, ok : BOOLEAN]
    /\ conf \in 1..MaxCfg
    /\ nsent \in Nat /\ nsignals \in Nat /\ restarts \in Nat
    /\ reconfWant \in 1..MaxCfg

LEMMA TypeOKSplit == TypeOK <=> LogTypeOK /\ RestTypeOK /\ peers \in Registry
BY DEF TypeOK, LogTypeOK, RestTypeOK

(* An exporter's datagram queued on a socket.                             *)
LEMMA QueueAppendLemma ==
    ASSUME NEW q \in Seq(Dgrams), NEW d \in Dgrams
    PROVE  Append(q, d) \in Seq(Dgrams) /\ Append(q, d) # <<>>
BY AppendProperties

(* The steps that leave the registry, the sockets and the counters alone. *)
LEMMA FrameRInv ==
    ASSUME RInv, LInv', RestTypeOK',
           UNCHANGED <<peers, net, revents>>, pc' = "sock" => pc = "sock"
    PROVE  RInv'
BY DEF RInv, LInv, TypeOK, LogTypeOK, RestTypeOK, RegistryConsistent, ReadableNonEmpty

LEMMA NextRInv == LInv /\ RInv /\ [Next]_vars => RInv'
<1> SUFFICES ASSUME LInv, RInv, [Next]_vars PROVE RInv'
  OBVIOUS
<1>1. LInv' /\ LogTypeOK /\ RestTypeOK /\ peers \in Registry
  BY NextLInv, TypeOKSplit DEF RInv
<1> USE FlowdAssumption, <1>1 DEF RestTypeOK
<1>2. CASE LoopTest
  BY <1>2, FrameRInv DEF LoopTest, envVars
<1>3. CASE ReopenCheck
  BY <1>3, FrameRInv DEF ReopenCheck, envVars
<1>4. CASE ReconfCheck
  BY <1>4, FrameRInv DEF ReconfCheck, envVars
<1>5. CASE ReconfClear
  BY <1>5, FrameRInv DEF ReconfClear, envVars
<1>6. CASE StartLog
  BY <1>6, FrameRInv DEF StartLog
<1>7. CASE InfoCheck
  BY <1>7, FrameRInv DEF InfoCheck, envVars
<1>8. CASE EnterPoll
  BY <1>8, FrameRInv DEF EnterPoll, envVars
<1>9. CASE PollReturn
  BY <1>9 DEF PollReturn, envVars, Polled, RInv, LInv, TypeOK, LogTypeOK, RestTypeOK,
                          RegistryConsistent, ReadableNonEmpty
<1>10. ASSUME NEW s \in Socks, ProcessInput(s) PROVE RInv'
  <2>1. /\ peers' \in Registry /\ ConsistentRegistry(peers')
        /\ net' \in [Socks -> Seq(Dgrams)] /\ revents' \subseteq Socks
        /\ ReadableNonEmpty'
    BY <1>10, ProcessInputRegistry, TypeOKSplit DEF RInv, RegistryConsistent
  <2>2. RestTypeOK'
    BY <1>10, <2>1 DEF ProcessInput
  <2> QED BY <2>1, <2>2 DEF RInv, LInv, TypeOK, LogTypeOK, RestTypeOK, RegistryConsistent
<1>11. ASSUME NEW sig \in Signals, Signal(sig) PROVE RInv'
  <2>1. RestTypeOK'
    <3>1. exit_flag' \in {0, 2, 15}
      BY <1>11 DEF Signal, Signals, SigNo
    <3>2. /\ reconf_flag' \in {0, 1} /\ info_flag' \in {0, 1}
          /\ nsignals' \in Nat /\ reconfWant' \in 1..MaxCfg
      BY <1>11 DEF Signal
    <3> QED BY <1>11, <3>1, <3>2 DEF Signal
  <2> QED BY <1>11, <2>1, FrameRInv DEF Signal
<1>12. ASSUME NEW s \in Socks, NEW d \in Dgrams, Send(s, d) PROVE RInv'
  <2>1. net' \in [Socks -> Seq(Dgrams)] /\ \A r \in Socks : net[r] # <<>> => net'[r] # <<>>
    <3>1. Append(net[s], d) \in Seq(Dgrams) /\ Append(net[s], d) # <<>>
      BY QueueAppendLemma
    <3> QED BY <1>12, <3>1 DEF Send
  <2>2. UNCHANGED <<exit_flag, reconf_flag, info_flag, revents, monitorAlive,
                    cfgFile, conf, peers, nsignals, restarts, reconfWant>>
    BY <1>12 DEF Send, loopVars
  <2>3. RestTypeOK'
    BY <1>12, <2>1, <2>2 DEF Send
  <2> QED BY <1>12, <2>1, <2>2, <2>3
          DEF Send, loopVars, RInv, LInv, TypeOK, LogTypeOK, RestTypeOK, RegistryConsistent, ReadableNonEmpty
<1>13. CASE Rotate
  BY <1>13, FrameRInv DEF Rotate, loopVars
<1>14. CASE EditConfig
  BY <1>14, FrameRInv DEF EditConfig, loopVars
<1>15. CASE MonitorExit
  BY <1>15, FrameRInv DEF MonitorExit, loopVars
<1>16. CASE Restart
  <2>1. RestTypeOK'
    <3>1. [r \in Socks |-> <<>>] \in [Socks -> Seq(Dgrams)]
      OBVIOUS
    <3>2. CASE cfgFile.ok
      BY <1>16, <3>1, <3>2 DEF Restart
    <3>3. CASE ~cfgFile.ok
      <4>1. /\ UNCHANGED <<exit_flag, reconf_flag, info_flag, revents, conf,
                          cfgFile, reconfWant>>
            /\ net' = [r \in Socks |-> <<>>] /\ restarts' = restarts + 1
            /\ nsent' = nsent /\ nsignals' = nsignals /\ monitorAlive' = FALSE
        BY <1>16, <3>3, Zenon DEF Restart
      <4>2. restarts' \in Nat
        BY <4>1
      <4> QED BY <3>1, <4>1, <4>2, Zenon
    <3> QED BY <3>2, <3>3
  <2>2. peers' \in Registry /\ ConsistentRegistry(peers')
    BY <1>16, EmptyRegistryLemma DEF Restart, RInv, RegistryConsistent
  <2> QED BY <1>16, <2>1, <2>2
     DEF Restart, RInv, LInv, TypeOK, LogTypeOK, RestTypeOK, RegistryConsistent, ReadableNonEmpty
<1>17. CASE UNCHANGED vars
  BY <1>17, FrameRInv DEF vars, loopVars, envVars
<1> QED BY <1>2, <1>3, <1>4, <1>5, <1>6, <1>7, <1>8, <1>9, <1>10, <1>11,
           <1>12, <1>13, <1>14, <1>15, <1>16, <1>17 DEF Next, Loop, Env

(***************************************************************************)
(* The theorems.                                                          *)
(***************************************************************************)

LEMMA LInvAlways == Spec => []LInv
BY InitLInv, NextLInv, PTL DEF Spec

(* For every number of sockets, log generations, signals and restarts:    *)
(* every log file is empty or holds one header, at its start, then flow   *)
(* records only: start_log writes a header only into an empty file, and   *)
(* process_flow appends only to the file start_log opened.                 *)
THEOREM LogLayout == Spec => []HeaderOnlyAtStart
<1>1. LInv => HeaderOnlyAtStart
  BY DEF LInv, Headed, HeaderOnlyAtStart
<1> QED BY <1>1, LInvAlways, PTL

(* While process_input runs, log_fd is open on a file that starts with a  *)
(* complete header, whatever the reopen and reconfiguration requests and  *)
(* the rotations before it.                                                *)
THEOREM LogReady == Spec => []LogReadyWhileReceiving
<1>1. LInv => LogReadyWhileReceiving
  BY DEF LInv, LogOpenOnHeader, OpenPastStartLog, LogReadyWhileReceiving
<1> QED BY <1>1, LInvAlways, PTL

(* A reopen request (USR1 or HUP) is never forgotten: with reopen_flag    *)
(* clear past start_log, log_fd refers to the file at the log path at the *)
(* last request or a newer one.                                            *)
THEOREM ReopenRequestsHonoured == Spec => []ReopenHonoured
<1>1. LInv => ReopenHonoured
  BY DEF LInv, LogTypeOK, OpenPastStartLog, OpenOnRequested, ReopenHonoured
<1> QED BY <1>1, LInvAlways, PTL

LEMMA RInvAlways == Spec => [](LInv /\ RInv)
<1>1. Init => LInv /\ RInv
  BY InitLInv, InitRInv
<1>2. LInv /\ RInv /\ [Next]_vars => LInv' /\ RInv'
  BY NextLInv, NextRInv
<1> QED BY <1>1, <1>2, PTL DEF Spec

(* The worker's state keeps its type whatever the environment does: in    *)
(* particular the registry stays a struct peers and every queued datagram *)
(* one an exporter sent.                                                   *)
THEOREM FlowdTypeCorrect == Spec => []TypeOK
BY RInvAlways, PTL DEF RInv
=============================================================================
