---------------------------- MODULE Conformance ----------------------------
(***************************************************************************)
(* The secure-session conformance driver, src/cmd/conformance/main.go.     *)
(*                                                                         *)
(* main runs three BeginSession test cases and then three Handshake test   *)
(* cases against an EKM server.  Each case builds a fresh ekmClient whose  *)
(* inner TLS client runs its handshake in a goroutine (newEKMClient) and   *)
(* talks to the driver only through the transport shim's two buffers: the  *)
(* engine appends to the send buffer, DrainSendBuf empties it into the     *)
(* next RPC, and QueueReceiveBuf hands the server's records to the engine. *)
(*                                                                         *)
(* TLS records are abstract: a flight is a sequence of record kinds, and   *)
(* the kind of its first record decides byte 0 (record type) and byte 5    *)
(* (handshake type) of the flight, which are the bytes the driver reads.   *)
(* The server under test is the environment: it answers as the spec's      *)
(* conformance rules say, or, when ServerFaults allows, deviates.          *)
(***************************************************************************)
EXTENDS Integers, Sequences, FiniteSets

CONSTANTS
  ServerFaults,   \* the ways the server under test may deviate, per reply
  ServerVersion,  \* the TLS version the server negotiates: "1.2" or "1.3"
  DrainWaits      \* whether DrainSendBuf waits for the engine to write

Faults == {"acceptBadHello", "rejectValid", "emptyRecords", "shortRecords",
           "alertRecord", "notServerHello", "handshakeAlert", "ignoreContext"}

ASSUME /\ ServerFaults \subseteq Faults
       /\ ServerVersion \in {"1.2", "1.3"}
       /\ DrainWaits \in BOOLEAN

Records == {"clientHello", "badClientHello", "clientFinished", "clientFlight12",
            "serverHello", "serverHello12", "notServerHello", "serverFinished12",
            "alert", "short"}

\* recordHeaderHandshake (0x16) and handshakeHeaderServerHello (0x02): the
\* records whose byte 0, and whose byte 5, have those values.
HandshakeRecords == {"clientHello", "badClientHello", "clientFlight12", "serverHello",
                     "serverHello12", "notServerHello", "short"}
ServerHelloRecords == {"serverHello", "serverHello12"}

\* Whether records[5] exists: every record but a short one has six bytes.
HasByte5(recs) == recs # <<>> /\ Head(recs) # "short"

\* The test tables of main: what each case expects and how it mutates the
\* records it sends and the session context it got back.
BeginSessionTests ==
  << [expectErr |-> FALSE, mutateRecs |-> "identity", mutateKey |-> "identity"],
     [expectErr |-> TRUE,  mutateRecs |-> "badHello", mutateKey |-> "identity"],
     [expectErr |-> TRUE,  mutateRecs |-> "empty",    mutateKey |-> "identity"] >>
HandshakeTests ==
  << [expectErr |-> FALSE, mutateRecs |-> "identity", mutateKey |-> "identity"],
     [expectErr |-> TRUE,  mutateRecs |-> "empty",    mutateKey |-> "identity"],
     [expectErr |-> TRUE,  mutateRecs |-> "identity", mutateKey |-> "empty"] >>
Tests == BeginSessionTests \o HandshakeTests
Cases == 1 .. Len(Tests)
IsBeginCase(i) == i <= Len(BeginSessionTests)

\* identityFn, emptyFn and the Client Hello corruption r[5] = 0xFF, which
\* panics on a slice shorter than six bytes.
MutatePanics(f, r) == f = "badHello" /\ ~HasByte5(r)
Mutate(f, r) ==
  CASE f = "identity" -> r
    [] f = "empty"    -> <<>>
    [] f = "badHello" -> <<"badClientHello">> \o Tail(r)

VARIABLES
  pc,          \* where main is: "newClient", "beginTest", "hsBegin", "hsHandshake", "done", "panic"
  tc,          \* the running test case
  engine,      \* engine[i]: state of the TLS handshake goroutine of case i
  sendBuf,     \* sendBuf[i]: the shim's send buffer of case i
  recvBuf,     \* recvBuf[i]: the shim's receive buffer of case i
  sessionCtx,  \* the (mutated) session context of the running Handshake case
  beginResp,   \* the BeginSession response of the running Handshake case
  results,     \* results[i]: "none", "pass" or "fail", as main prints it
  deviations   \* deviations[i]: the RPCs of case i the server answered off-spec

vars == <<pc, tc, engine, sendBuf, recvBuf, sessionCtx, beginResp, results, deviations>>

Responses == [err : BOOLEAN, ctx : {"ctx", "none"}, recs : Seq(Records)]
Ok(recs) == [err |-> FALSE, ctx |-> "ctx", recs |-> recs]
Err == [err |-> TRUE, ctx |-> "none", recs |-> <<>>]

-----------------------------------------------------------------------------
(* The shim and the server under test.                                     *)

\* Faulty variant: a drain that never waits, whatever DrainWaits says.
\* DrainSendBuf: returns the send buffer and empties it.  The spec does not
\* say whether it waits for the engine; DrainWaits chooses.
CanDrain(i) == DrainWaits => sendBuf[i] # <<>>

\* What the spec's conformance rules require of the server.
ServerHello == IF ServerVersion = "1.3" THEN "serverHello" ELSE "serverHello12"
BeginConform(req) ==
  IF req # <<>> /\ Head(req) = "clientHello" THEN Ok(<<ServerHello>>) ELSE Err
HandshakeConform(ctx, req) ==
  IF ctx = "ctx" /\ req # <<>> /\ Head(req) \in {"clientFinished", "clientFlight12"}
  THEN Ok(IF ServerVersion = "1.3" THEN <<>> ELSE <<"serverFinished12">>)
  ELSE Err

\* The replies a server with the faults ServerFaults may give.
BeginReplies(req) ==
  LET valid == req # <<>> /\ Head(req) = "clientHello"
      dev(f, r) == IF f \in ServerFaults THEN {r} ELSE {}
  IN {BeginConform(req)}
     \cup (IF req # <<>> /\ Head(req) = "badClientHello"
           THEN dev("acceptBadHello", Ok(<<ServerHello>>)) ELSE {})
     \cup (IF valid THEN dev("rejectValid", Err) \cup dev("emptyRecords", Ok(<<>>))
                         \cup dev("shortRecords", Ok(<<"short">>))
                         \cup dev("alertRecord", Ok(<<"alert">>))
                         \cup dev("notServerHello", Ok(<<"notServerHello">>))
           ELSE {})
HandshakeReplies(ctx, req) ==
  LET dev(f, r) == IF f \in ServerFaults THEN {r} ELSE {}
      validReq == req # <<>> /\ Head(req) \in {"clientFinished", "clientFlight12"}
  IN {HandshakeConform(ctx, req)}
     \cup (IF validReq /\ ctx = "ctx"
           THEN dev("rejectValid", Err) \cup dev("handshakeAlert", Ok(<<"alert">>)) ELSE {})
     \cup (IF validReq /\ ctx # "ctx" THEN dev("ignoreContext", HandshakeConform("ctx", req)) ELSE {})

Deviation(rpc, resp, conform) == IF resp = conform THEN {} ELSE {rpc}
-----------------------------------------------------------------------------
(* The TLS client goroutine started by newEKMClient (crypto/tls).  It      *)
(* writes its Client Hello, then answers each flight it reads: a TLS 1.3   *)
(* Server Hello flight with its Finished, a TLS 1.2 one with its key       *)
(* exchange flight after which it waits for the server's Finished, and     *)
(* anything else with an alert.  Goroutines stop when main returns.        *)

Running == pc \notin {"done", "panic"}

EngineWrite(i) ==
  /\ Running /\ engine[i] = "start"
  /\ sendBuf' = [sendBuf EXCEPT ![i] = @ \o <<"clientHello">>]
  /\ engine' = [engine EXCEPT ![i] = "waitServerHello"]
  /\ UNCHANGED <<pc, tc, recvBuf, sessionCtx, beginResp, results, deviations>>

EngineRead(i) ==
  /\ Running /\ engine[i] \in {"waitServerHello", "waitFinished"} /\ recvBuf[i] # <<>>
  /\ LET r == Head(recvBuf[i])
         step == CASE engine[i] = "waitServerHello" /\ r = "serverHello"
                        -> [out |-> <<"clientFinished">>, st |-> "established"]
                   [] engine[i] = "waitServerHello" /\ r = "serverHello12"
                        -> [out |-> <<"clientFlight12">>, st |-> "waitFinished"]
                   [] engine[i] = "waitFinished" /\ r = "serverFinished12"
                        -> [out |-> <<>>, st |-> "established"]
                   [] OTHER -> [out |-> <<"alert">>, st |-> "failed"]
     IN /\ recvBuf' = [recvBuf EXCEPT ![i] = Tail(@)]
        /\ sendBuf' = [sendBuf EXCEPT ![i] = @ \o step.out]
        /\ engine' = [engine EXCEPT ![i] = step.st]
  /\ UNCHANGED <<pc, tc, sessionCtx, beginResp, results, deviations>>

-----------------------------------------------------------------------------
(* main and the two test runners.                                          *)

\* newEKMClient: a fresh shim and TLS client, and the handshake goroutine.
NewEKMClient ==
  /\ pc = "newClient"
  /\ engine' = [engine EXCEPT ![tc] = "start"]
  /\ pc' = IF IsBeginCase(tc) THEN "beginTest" ELSE "hsBegin"
  /\ UNCHANGED <<tc, sendBuf, recvBuf, sessionCtx, beginResp, results, deviations>>

\* Mutant: the early return on a BeginSession error is dropped.
BeginSessionChecksNoErrReturn(resp) ==
  CASE resp.recs = <<>>                         -> "panic"
    [] Head(resp.recs) \notin HandshakeRecords  -> "err"
    [] ~HasByte5(resp.recs)                     -> "panic"
    [] Head(resp.recs) \notin ServerHelloRecords -> "err"
    [] OTHER                                    -> IF resp.err THEN "err" ELSE "ok"

\* Mutant: the records[5] Server Hello check is dropped.
BeginSessionChecksNoServerHello(resp) ==
  CASE resp.err                                 -> "err"
    [] resp.recs = <<>>                         -> "panic"
    [] Head(resp.recs) \notin HandshakeRecords  -> "err"
    [] OTHER                                    -> "ok"

\* The checks of runBeginSessionTestCase on the BeginSession reply: the
\* error, records[0] and records[5], read without a length check.
BeginSessionChecks(resp) ==
  CASE resp.err                                 -> "err"
    [] resp.recs = <<>>                         -> "panic"
    [] Head(resp.recs) \notin HandshakeRecords  -> "err"
    [] ~HasByte5(resp.recs)                     -> "panic"
    [] Head(resp.recs) \notin ServerHelloRecords -> "err"
    [] OTHER                                    -> "ok"

\* The checks of runHandshakeTestCase: the Handshake error, then records[0]
\* of a non-empty record list, taken from resp, the BeginSession reply.
HandshakeChecks(hresp, resp) ==
  CASE hresp.err                                                  -> "err"
    [] resp.recs # <<>> /\ Head(resp.recs) \notin HandshakeRecords -> "err"
    [] OTHER                                                      -> "ok"

\* Faulty variant: the loop bound off by one (`i <= len(testCases)`).
ReportOffByOne(outcome, dev) ==
  LET passed == Tests[tc].expectErr = (outcome = "err")
  IN /\ deviations' = [deviations EXCEPT ![tc] = dev]
     /\ IF outcome = "panic" \/ (~passed /\ outcome = "ok")
        THEN pc' = "panic" /\ UNCHANGED <<tc, results>>
        ELSE /\ results' = [results EXCEPT ![tc] = IF passed THEN "pass" ELSE "fail"]
             /\ pc' = IF tc = Len(Tests) + 1 THEN "done" ELSE "newClient"
             /\ tc' = IF tc = Len(Tests) + 1 THEN tc ELSE tc + 1

\* The loop body of main: a case passes when it errs exactly when expected;
\* one that fails without an error calls err.Error() on nil and panics.
Report(outcome, dev) ==
  LET passed == Tests[tc].expectErr = (outcome = "err")
  IN /\ deviations' = [deviations EXCEPT ![tc] = dev]
     /\ IF outcome = "panic" \/ (~passed /\ outcome = "ok")
        THEN pc' = "panic" /\ UNCHANGED <<tc, results>>
        ELSE /\ results' = [results EXCEPT ![tc] = IF passed THEN "pass" ELSE "fail"]
             /\ pc' = IF tc = Len(Tests) THEN "done" ELSE "newClient"
             /\ tc' = IF tc = Len(Tests) THEN tc ELSE tc + 1

\* runBeginSessionTestCase: drain the Client Hello, mutate it, BeginSession,
\* check the reply, and report.
RunBeginSessionTestCase ==
  /\ pc = "beginTest" /\ CanDrain(tc)
  /\ sendBuf' = [sendBuf EXCEPT ![tc] = <<>>]
  /\ LET t == Tests[tc]
         drained == sendBuf[tc]
     IN IF MutatePanics(t.mutateRecs, drained)
        THEN pc' = "panic" /\ UNCHANGED <<tc, results, deviations>>
        ELSE LET req == Mutate(t.mutateRecs, drained)
             IN \E resp \in BeginReplies(req) :
                  Report(BeginSessionChecks(resp), Deviation("BeginSession", resp, BeginConform(req)))
  /\ UNCHANGED <<engine, recvBuf, sessionCtx, beginResp>>

\* Mutants of runHandshakeTestCase's first half: the session-key mutation
\* applied to the wrong cases; QueueReceiveBuf forgotten.
HandshakeBeginKeyInverted ==
  /\ pc = "hsBegin" /\ CanDrain(tc)
  /\ sendBuf' = [sendBuf EXCEPT ![tc] = <<>>]
  /\ \E resp \in BeginReplies(sendBuf[tc]) :
       LET dev == Deviation("BeginSession", resp, BeginConform(sendBuf[tc]))
       IN IF resp.err
          THEN Report("err", dev) /\ UNCHANGED <<recvBuf, sessionCtx, beginResp>>
          ELSE /\ sessionCtx' = IF Tests[tc].mutateKey = "empty" THEN resp.ctx ELSE "none"
               /\ recvBuf' = [recvBuf EXCEPT ![tc] = @ \o resp.recs]
               /\ beginResp' = resp
               /\ deviations' = [deviations EXCEPT ![tc] = dev]
               /\ pc' = "hsHandshake"
               /\ UNCHANGED <<tc, results>>
  /\ UNCHANGED engine
HandshakeBeginNoQueue ==
  /\ pc = "hsBegin" /\ CanDrain(tc)
  /\ sendBuf' = [sendBuf EXCEPT ![tc] = <<>>]
  /\ \E resp \in BeginReplies(sendBuf[tc]) :
       LET dev == Deviation("BeginSession", resp, BeginConform(sendBuf[tc]))
       IN IF resp.err
          THEN Report("err", dev) /\ UNCHANGED <<sessionCtx, beginResp>>
          ELSE /\ sessionCtx' = IF Tests[tc].mutateKey = "empty" THEN "none" ELSE resp.ctx
               /\ beginResp' = resp
               /\ deviations' = [deviations EXCEPT ![tc] = dev]
               /\ pc' = "hsHandshake"
               /\ UNCHANGED <<tc, results>>
  /\ UNCHANGED <<engine, recvBuf>>

\* runHandshakeTestCase up to QueueReceiveBuf: drain, BeginSession, mutate
\* the session context and queue the server's records for the engine.
HandshakeBegin ==
  /\ pc = "hsBegin" /\ CanDrain(tc)
  /\ sendBuf' = [sendBuf EXCEPT ![tc] = <<>>]
  /\ \E resp \in BeginReplies(sendBuf[tc]) :
       LET dev == Deviation("BeginSession", resp, BeginConform(sendBuf[tc]))
       IN IF resp.err
          THEN Report("err", dev) /\ UNCHANGED <<recvBuf, sessionCtx, beginResp>>
          ELSE /\ sessionCtx' = IF Tests[tc].mutateKey = "empty" THEN "none" ELSE resp.ctx
               /\ recvBuf' = [recvBuf EXCEPT ![tc] = @ \o resp.recs]
               /\ beginResp' = resp
               /\ deviations' = [deviations EXCEPT ![tc] = dev]
               /\ pc' = "hsHandshake"
               /\ UNCHANGED <<tc, results>>
  /\ UNCHANGED engine

\* The rest of runHandshakeTestCase: drain the engine's answer, mutate it,
\* one Handshake call, the checks, and report.
HandshakeFinish ==
  /\ pc = "hsHandshake" /\ CanDrain(tc)
  /\ sendBuf' = [sendBuf EXCEPT ![tc] = <<>>]
  /\ LET req == Mutate(Tests[tc].mutateRecs, sendBuf[tc])
     IN \E hresp \in HandshakeReplies(sessionCtx, req) :
          Report(HandshakeChecks(hresp, beginResp),
                 deviations[tc] \cup Deviation("Handshake", hresp, HandshakeConform(sessionCtx, req)))
  /\ UNCHANGED <<engine, recvBuf, sessionCtx, beginResp>>

Driver == NewEKMClient \/ RunBeginSessionTestCase \/ HandshakeBegin \/ HandshakeFinish
Engine(i) == EngineWrite(i) \/ EngineRead(i)

Init ==
  /\ pc = "newClient"
  /\ tc = 1
  /\ engine = [i \in Cases |-> "idle"]
  /\ sendBuf = [i \in Cases |-> <<>>]
  /\ recvBuf = [i \in Cases |-> <<>>]
  /\ sessionCtx = "none"
  /\ beginResp = Err
  /\ results = [i \in Cases |-> "none"]
  /\ deviations = [i \in Cases |-> {}]

Next == Driver \/ \E i \in Cases : Engine(i)

\* The Go scheduler runs every runnable goroutine eventually: main, and each
\* handshake goroutine while it has input to read or output to write.
Fairness == WF_vars(Driver) /\ \A i \in Cases : WF_vars(Engine(i))

Spec == Init /\ [][Next]_vars /\ Fairness

-----------------------------------------------------------------------------
EngineStates == {"idle", "start", "waitServerHello", "waitFinished", "established", "failed"}

TypeOK ==
  /\ pc \in {"newClient", "beginTest", "hsBegin", "hsHandshake", "done", "panic"}
  /\ tc \in Cases
  /\ engine \in [Cases -> EngineStates]
  /\ sendBuf \in [Cases -> Seq(Records)]
  /\ recvBuf \in [Cases -> Seq(Records)]
  /\ sessionCtx \in {"ctx", "none"}
  /\ beginResp \in Responses
  /\ results \in [Cases -> {"none", "pass", "fail"}]
  /\ deviations \in [Cases -> SUBSET {"BeginSession", "Handshake"}]

\* The RPC a case is about.
Target(i) == IF IsBeginCase(i) THEN "BeginSession" ELSE "Handshake"

\* The driver never panics (index out of range on a short record list or a
\* short drained Client Hello, or err.Error() on a nil error), whatever the
\* server answers and however the handshake goroutine is scheduled.
NoPanic == pc # "panic"

\* A case main prints as passed is one whose RPC the server answered as the
\* spec requires: the conformance tool does not certify a deviation.
ReportSound == \A i \in Cases : results[i] = "pass" => Target(i) \notin deviations[i]

\* Against a server that answers a case entirely as the spec requires, main
\* prints that case as passed: the tool raises no false alarm.
ReportComplete == \A i \in Cases : results[i] # "none" /\ deviations[i] = {} => results[i] = "pass"

\* main runs through all its cases (or dies): it never waits forever on a
\* shim whose engine has nothing more to write.
DriverTerminates == <>(pc \in {"done", "panic"})
====
