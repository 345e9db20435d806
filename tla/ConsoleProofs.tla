----------------------------- MODULE ConsoleProofs -----------------------------
(***************************************************************************)
(* Proofs about Console for any number of consoles, beside any number of   *)
(* users, sessions, ports, requests, jobs, sweeps and collectors.           *)
(***************************************************************************)
EXTENDS Console, VMLifecycleProofs

-----------------------------------------------------------------------------
(* Part 1.  The lifecycle goes on under the consoles. *)

(***************************************************************************)
(* A step of the system is a step of VMLifecycle or leaves it alone.       *)
(***************************************************************************)
LEMMA ConsoleIsLifecycle == [ConsoleNext]_ConsoleVars => [Next]_vars
BY DEF ConsoleNext, ConsoleVars, vm_step, console_step

(***************************************************************************)
(* The lifecycle's types and references hold beside the consoles.          *)
(***************************************************************************)
LEMMA ConsoleBase == ConsoleSpec => []BaseInv
<1>1. ConsoleInit => BaseInv
    BY InitBase DEF ConsoleInit
<1>2. BaseInv /\ [ConsoleNext]_ConsoleVars => BaseInv'
    BY NextBase, ConsoleIsLifecycle
<1> QED BY <1>1, <1>2, PTL DEF ConsoleSpec

(***************************************************************************)
(* And so does its ledger.                                                 *)
(***************************************************************************)
LEMMA ConsoleLedger == ConsoleSpec => []LedgerInv
<1>1. ConsoleInit => LedgerInv
    BY InitLedger DEF ConsoleInit
<1>2. BaseInv /\ LedgerInv /\ [ConsoleNext]_ConsoleVars => LedgerInv'
    BY NextLedger, ConsoleIsLifecycle
<1> QED BY <1>1, <1>2, ConsoleBase, PTL DEF ConsoleSpec

-----------------------------------------------------------------------------
(* Part 2.  The two pumps and the two sockets of a console. *)

(***************************************************************************)
(* What a console's handler knows: before it connects there is no          *)
(* connection; a pump that has ended has closed the socket it writes to;   *)
(* when both have, both sockets are closed; a connection leads to a QEMU.  *)
(***************************************************************************)
PumpsOK(r) ==
    /\ r.step = "relay" <=> r.ws_to_tcp \/ r.tcp_to_ws
    /\ r.step = "connect" => r.tcp = "none"
    /\ r.step = "relay" /\ ~r.ws_to_tcp => r.tcp = "closed"
    /\ r.step = "relay" /\ ~r.tcp_to_ws => r.ws = "closed"
    /\ r.step = "over" => r.ws = "closed" /\ r.tcp # "open"
    /\ r.tcp = "open" => r.qemu \in Sessions

RelayInv ==
    /\ con \in [Consoles -> Relay \union {None}]
    /\ \A c \in Consoles : con[c] # None => PumpsOK(con[c])

(***************************************************************************)
(* No console is open initially.                                           *)
(***************************************************************************)
LEMMA InitRelay == ConsoleInit => RelayInv
BY DEF ConsoleInit, RelayInv

(***************************************************************************)
(* A pump that ends, whatever ended it, closes what it writes to, and the  *)
(* handler is over exactly when the other pump has ended too.              *)
(***************************************************************************)
LEMMA PumpEnds ==
    ASSUME NEW r \in Relay, PumpsOK(r), r.step = "relay"
    PROVE  /\ r.ws_to_tcp => up_ends(r) \in Relay /\ PumpsOK(up_ends(r))
           /\ r.tcp_to_ws => down_ends(r) \in Relay /\ PumpsOK(down_ends(r))
<1>1. ASSUME r.ws_to_tcp PROVE up_ends(r) \in Relay /\ PumpsOK(up_ends(r))
    BY <1>1 DEF up_ends, Gathered, Relay, PumpsOK
<1>2. ASSUME r.tcp_to_ws PROVE down_ends(r) \in Relay /\ PumpsOK(down_ends(r))
    BY <1>2 DEF down_ends, Gathered, Relay, PumpsOK
<1> QED BY <1>1, <1>2

(***************************************************************************)
(* A domain that ends closes at most the connection to QEMU.               *)
(***************************************************************************)
LEMMA HangupKeepsPumps ==
    ASSUME NEW r \in Relay, PumpsOK(r)
    PROVE  Hangup(r) \in Relay /\ PumpsOK(Hangup(r))
<1>1. Hangup(r) \in Relay
    BY DEF Hangup, Relay
<1>2. /\ Hangup(r).step = r.step /\ Hangup(r).ws = r.ws /\ Hangup(r).qemu = r.qemu
      /\ Hangup(r).ws_to_tcp = r.ws_to_tcp /\ Hangup(r).tcp_to_ws = r.tcp_to_ws
      /\ Hangup(r).tcp = r.tcp \/ (r.tcp = "open" /\ Hangup(r).tcp = "closed")
    BY DEF Hangup, Relay
<1> QED BY <1>1, <1>2 DEF PumpsOK

\* A step of one console leaves the other ones alone and makes its own r.
Becomes(c, r) == con' = [con EXCEPT ![c] = r]

(***************************************************************************)
(* The forms a console's step can take.                                    *)
(***************************************************************************)
LEMMA StepOfOneConsole ==
    ASSUME RelayInv, NEW c \in Consoles, console_step(c)
    PROVE  \/ \E s \in Sessions :
                /\ state[s] = "running" /\ vnc_port[s] # None
                /\ Becomes(c, [step |-> "connect", session |-> s, vnc_port |-> vnc_port[s], qemu |-> None,
                               ws |-> "open", tcp |-> "none", ws_to_tcp |-> FALSE, tcp_to_ws |-> FALSE,
                               overtaken |-> FALSE])
           \/ /\ At(c, "connect")
              /\ \E t \in Listening(con[c].vnc_port) :
                    Becomes(c, [con[c] EXCEPT !.step = "relay", !.qemu = t, !.tcp = "open",
                                              !.ws_to_tcp = TRUE, !.tcp_to_ws = TRUE])
           \/ At(c, "connect") /\ Becomes(c, [con[c] EXCEPT !.step = "over", !.ws = "closed"])
           \/ con[c] # None /\ Becomes(c, [con[c] EXCEPT !.ws = "closed"])
           \/ At(c, "relay") /\ con[c].ws_to_tcp /\ Becomes(c, up_ends(con[c]))
           \/ At(c, "relay") /\ con[c].tcp_to_ws /\ Becomes(c, down_ends(con[c]))
<1>1. CASE \E s \in Sessions : console_ws(c, s)
    BY <1>1 DEF console_ws, lookup, Becomes
<1>2. CASE relay_connects(c)
    <2>1. PICK t \in Listening(con[c].vnc_port) :
              con' = [con EXCEPT ![c].step = "relay", ![c].qemu = t, ![c].tcp = "open",
                                 ![c].ws_to_tcp = TRUE, ![c].tcp_to_ws = TRUE]
        BY <1>2 DEF relay_connects
    <2>2. con[c] \in Relay
        BY <1>2 DEF relay_connects, At, RelayInv
    <2>3. Becomes(c, [con[c] EXCEPT !.step = "relay", !.qemu = t, !.tcp = "open",
                                    !.ws_to_tcp = TRUE, !.tcp_to_ws = TRUE])
        BY <2>1, <2>2 DEF Becomes, RelayInv, Relay
    <2> QED BY <1>2, <2>3 DEF relay_connects
<1>3. CASE relay_refused(c)
    <2>1. con[c] \in Relay
        BY <1>3 DEF relay_refused, At, RelayInv
    <2>2. Becomes(c, [con[c] EXCEPT !.step = "over", !.ws = "closed"])
        BY <1>3, <2>1 DEF relay_refused, Becomes, RelayInv, Relay
    <2> QED BY <1>3, <2>2 DEF relay_refused
<1>4. CASE browser_leaves(c)
    BY <1>4 DEF browser_leaves, Becomes
<1>5. CASE ws_to_tcp(c) \/ write_fails(c)
    BY <1>5 DEF ws_to_tcp, write_fails, Becomes
<1>6. CASE tcp_to_ws(c) \/ send_fails(c)
    BY <1>6 DEF tcp_to_ws, send_fails, Becomes
<1> QED BY <1>1, <1>2, <1>3, <1>4, <1>5, <1>6 DEF console_step, relay_step

(***************************************************************************)
(* Every step keeps what the handlers know.                                *)
(***************************************************************************)
LEMMA NextRelay == BaseInv /\ RelayInv /\ [ConsoleNext]_ConsoleVars => RelayInv'
<1> SUFFICES ASSUME BaseInv, RelayInv, [ConsoleNext]_ConsoleVars PROVE RelayInv'
    OBVIOUS
<1>a. ASSUME NEW c \in Consoles, NEW r \in Relay, PumpsOK(r), Becomes(c, r) PROVE RelayInv'
    BY <1>a DEF Becomes, RelayInv, PumpsOK
<1>b. \A c \in Consoles : con[c] # None => con[c] \in Relay /\ PumpsOK(con[c])
    BY DEF RelayInv
<1>1. CASE vm_step
    <2>1. /\ con' \in [Consoles -> Relay \union {None}]
          /\ \A c \in Consoles : con'[c] # None => PumpsOK(con'[c])
        BY <1>1, <1>b, HangupKeepsPumps DEF vm_step
    <2> QED BY <2>1 DEF RelayInv, PumpsOK
<1>2. ASSUME NEW c \in Consoles, console_step(c) PROVE RelayInv'
    <2>1. ASSUME NEW s \in Sessions, vnc_port[s] # None,
                 Becomes(c, [step |-> "connect", session |-> s, vnc_port |-> vnc_port[s], qemu |-> None,
                             ws |-> "open", tcp |-> "none", ws_to_tcp |-> FALSE, tcp_to_ws |-> FALSE,
                             overtaken |-> FALSE])
          PROVE  RelayInv'
        <3>1. vnc_port[s] \in Ports
            BY <2>1 DEF BaseInv, TypeOK, RowsType
        <3> QED BY <2>1, <3>1, <1>a DEF Relay, PumpsOK
    <2>2. ASSUME At(c, "connect"), NEW t \in Listening(con[c].vnc_port),
                 Becomes(c, [con[c] EXCEPT !.step = "relay", !.qemu = t, !.tcp = "open",
                                           !.ws_to_tcp = TRUE, !.tcp_to_ws = TRUE])
          PROVE  RelayInv'
        <3>1. con[c] \in Relay /\ t \in Sessions
            BY <2>2, <1>b DEF At, Listening
        <3> QED BY <2>2, <3>1, <1>a DEF Relay, PumpsOK
    <2>3. ASSUME At(c, "connect"), Becomes(c, [con[c] EXCEPT !.step = "over", !.ws = "closed"])
          PROVE  RelayInv'
        <3>1. con[c] \in Relay /\ PumpsOK(con[c])
            BY <2>3, <1>b DEF At
        <3> QED BY <2>3, <3>1, <1>a DEF Relay, PumpsOK, At
    <2>4. ASSUME con[c] # None, Becomes(c, [con[c] EXCEPT !.ws = "closed"]) PROVE RelayInv'
        BY <2>4, <1>a, <1>b DEF Relay, PumpsOK
    <2>5. ASSUME At(c, "relay"), con[c].ws_to_tcp, Becomes(c, up_ends(con[c])) PROVE RelayInv'
        BY <2>5, <1>a, <1>b, PumpEnds DEF At
    <2>6. ASSUME At(c, "relay"), con[c].tcp_to_ws, Becomes(c, down_ends(con[c])) PROVE RelayInv'
        BY <2>6, <1>a, <1>b, PumpEnds DEF At
    <2> QED BY <1>2, <2>1, <2>2, <2>3, <2>4, <2>5, <2>6, StepOfOneConsole
<1>3. CASE UNCHANGED ConsoleVars
    BY <1>3 DEF ConsoleVars, RelayInv, PumpsOK
<1> QED BY <1>1, <1>2, <1>3 DEF ConsoleNext

(***************************************************************************)
(* The handlers' knowledge is invariant, with or without redelivery.       *)
(***************************************************************************)
THEOREM ConsoleRelayInv == ConsoleSpec => []RelayInv
BY InitRelay, NextRelay, ConsoleBase, PTL DEF ConsoleSpec

(***************************************************************************)
(* The types, and that a handler relays exactly while it has a pump.       *)
(***************************************************************************)
THEOREM ConsoleTypes == ConsoleSpec => []ConsoleTypeOK
<1>1. BaseInv /\ RelayInv => ConsoleTypeOK
    <2> SUFFICES ASSUME BaseInv, RelayInv, NEW c \in Consoles, con[c] # None
                 PROVE  (con[c].step = "relay") = (con[c].ws_to_tcp \/ con[c].tcp_to_ws)
        BY DEF BaseInv, RelayInv, ConsoleTypeOK
    <2>1. con[c] \in Relay /\ PumpsOK(con[c])
        BY DEF RelayInv
    <2> QED BY <2>1 DEF Relay, PumpsOK
<1> QED BY <1>1, ConsoleBase, ConsoleRelayInv, PTL

(***************************************************************************)
(* A console that is over has both sockets closed, in whatever order the   *)
(* browser and the VM went away and the pumps noticed.                     *)
(***************************************************************************)
THEOREM ConsoleOverIsClosed == ConsoleSpec => []OverIsClosed
<1>1. RelayInv => OverIsClosed
    BY DEF RelayInv, PumpsOK, OverIsClosed, At
<1> QED BY <1>1, ConsoleRelayInv, PTL

-----------------------------------------------------------------------------
(* Part 3.  Whose VM a console shows. *)

(***************************************************************************)
(* A row's port is written only where its job commits.                     *)
(***************************************************************************)
LEMMA PortIsWrittenByCommit ==
    [Next]_vars => \/ vnc_port' = vnc_port
                   \/ \E s \in Sessions : job[s] = "commit" /\ vnc_port' = [vnc_port EXCEPT ![s] = jport[s]]
<1> SUFFICES ASSUME [Next]_vars, vnc_port' # vnc_port
             PROVE  \E s \in Sessions : provision_commit(s)
    BY DEF provision_commit
<1>a. ASSUME NEW p, stop_step(p) PROVE FALSE
    BY <1>a DEF stop_step, stop_begin, stop_domain, stop_undefine, stop_overlay, stop_release,
        stop_commit, stop_raises, row
<1>1. ASSUME NEW h \in Handlers, handler_step(h) PROVE FALSE
    BY <1>1, <1>a DEF handler_step, launch_vm, launch_capacity, launch_refused, launch_insert,
        launch_conflict, launch_enqueue, request_stop, row
<1>2. ASSUME NEW w \in Sweepers, sweeper_step(w) PROVE FALSE
    BY <1>2, <1>a DEF sweeper_step, sweep_select, Selects, sweep_stop, row
<1>3. ASSUME NEW g \in Collectors, collector_step(g) PROVE FALSE
    BY <1>3, <1>a DEF collector_step, gc_select, Selects, gc_mismatch, gc_match, row
<1>4. ASSUME NEW p \in Procs, interrupted(p) PROVE FALSE
    BY <1>4 DEF interrupted, row
<1>5. ASSUME NEW s \in Sessions, session_step(s) PROVE provision_commit(s)
    BY <1>5 DEF session_step, job_step, provision_load, provision_begin, provision_overlay,
        provision_port, provision_define, provision_define_raises, provision_create_raises,
        provision_fail, provision_cleanup, provision_publish, provision_raises, guest_powers_off,
        falls_due, renewed, job_interrupted, job_redelivered, row
<1>6. vars' # vars
    BY DEF vars, row
<1> QED BY <1>1, <1>2, <1>3, <1>4, <1>5, <1>6 DEF Next

(***************************************************************************)
(* A running row has its port, and its job will not commit another one.    *)
(***************************************************************************)
LEMMA RunningKeepsPort ==
    ASSUME BaseInv, LedgerInv, [Next]_vars, NEW s \in Sessions, state[s] = "running"
    PROVE  vnc_port'[s] = vnc_port[s]
<1>1. vnc_port[s] # None /\ job[s] # "commit"
    BY DEF LedgerInv, RowLedger
<1> QED BY <1>1, PortIsWrittenByCommit DEF BaseInv, TypeOK, RowsType

(***************************************************************************)
(* Until a session is overtaken by a stop, a console that is about to      *)
(* connect holds the port of a running row; one that is connected is       *)
(* connected to its own session's QEMU, while no job has brought a stopped *)
(* VM back.                                                                *)
(***************************************************************************)
ShownOK(r) ==
    /\ r.step = "connect" /\ ~r.overtaken =>
           state[r.session] = "running" /\ vnc_port[r.session] = r.vnc_port
    /\ r.tcp = "open" => r.qemu = r.session \/ r.overtaken \/ reborn # {}

ShownLedger == \A c \in Consoles : con[c] # None => ShownOK(con[c])

(***************************************************************************)
(* A step of the lifecycle leaves a console its port, or overtakes it.     *)
(***************************************************************************)
LEMMA HangupKeepsShown ==
    ASSUME BaseInv, LedgerInv, [Next]_vars, NEW r \in Relay, ShownOK(r)
    PROVE  LET h == Hangup(r)
           IN /\ h.step = "connect" /\ ~h.overtaken =>
                     state'[h.session] = "running" /\ vnc_port'[h.session] = h.vnc_port
              /\ h.tcp = "open" => h.qemu = h.session \/ h.overtaken \/ reborn' # {}
<1>1. PICK h \in Relay : h = Hangup(r)
    BY DEF Hangup, Relay
<1>2. /\ h.step = r.step /\ h.session = r.session /\ h.vnc_port = r.vnc_port /\ h.qemu = r.qemu
      /\ h.tcp = "open" => r.tcp = "open"
      /\ r.overtaken => h.overtaken
      /\ r.step = "connect" /\ ~h.overtaken => ~r.overtaken /\ state'[r.session] = "running"
    BY <1>1 DEF Hangup, Relay
<1>3. r.session \in Sessions
    BY DEF Relay
<1>4. reborn # {} => reborn' # {}
    BY RebornGrows
<1> QED BY <1>1, <1>2, <1>3, <1>4, RunningKeepsPort DEF ShownOK

(***************************************************************************)
(* Every step keeps the consoles on their own sessions.                    *)
(***************************************************************************)
LEMMA NextShown ==
    BaseInv /\ LedgerInv /\ ConsoleIsExclusive /\ RelayInv /\ ShownLedger
        /\ [ConsoleNext]_ConsoleVars => ShownLedger'
<1> SUFFICES ASSUME BaseInv, LedgerInv, ConsoleIsExclusive, RelayInv, ShownLedger,
                    [ConsoleNext]_ConsoleVars
             PROVE  ShownLedger'
    OBVIOUS
<1>a. \A c \in Consoles : con[c] # None => con[c] \in Relay /\ ShownOK(con[c]) /\ PumpsOK(con[c])
    BY DEF RelayInv, ShownLedger
<1>b. ASSUME NEW c \in Consoles, NEW r, UNCHANGED vars, ShownOK(r), Becomes(c, r) PROVE ShownLedger'
    BY <1>b DEF vars, row, stores, Becomes, ShownLedger, ShownOK, RelayInv
<1>1. CASE vm_step
    <2>1. [Next]_vars
        BY <1>1 DEF vm_step
    <2> SUFFICES ASSUME NEW c \in Consoles, con'[c] # None PROVE ShownOK(con[c])'
        BY DEF ShownLedger
    <2>2. con[c] # None /\ con'[c] = Hangup(con[c])
        BY <1>1 DEF vm_step
    <2> QED BY <1>a, <2>1, <2>2, HangupKeepsShown DEF ShownOK
<1>2. ASSUME NEW c \in Consoles, console_step(c) PROVE ShownLedger'
    <2>0. UNCHANGED vars
        BY <1>2 DEF console_step
    <2>1. ASSUME NEW s \in Sessions, state[s] = "running",
                 Becomes(c, [step |-> "connect", session |-> s, vnc_port |-> vnc_port[s], qemu |-> None,
                             ws |-> "open", tcp |-> "none", ws_to_tcp |-> FALSE, tcp_to_ws |-> FALSE,
                             overtaken |-> FALSE])
          PROVE  ShownLedger'
        BY <2>0, <2>1, <1>b DEF ShownOK
    <2>2. ASSUME At(c, "connect"), NEW t \in Listening(con[c].vnc_port),
                 Becomes(c, [con[c] EXCEPT !.step = "relay", !.qemu = t, !.tcp = "open",
                                           !.ws_to_tcp = TRUE, !.tcp_to_ws = TRUE])
          PROVE  ShownLedger'
        <3>1. /\ con[c] \in Relay /\ ShownOK(con[c]) /\ con[c].step = "connect"
              /\ t \in Sessions /\ domain[t] \in Live /\ dom_port[t] = con[c].vnc_port
            BY <2>2, <1>a DEF At, Listening
        <3>2. con[c].overtaken \/ t = con[c].session \/ reborn # {}
            BY <3>1 DEF ShownOK, ConsoleIsExclusive, Relay, Live
        <3>3. PICK r : r = [con[c] EXCEPT !.step = "relay", !.qemu = t, !.tcp = "open",
                                           !.ws_to_tcp = TRUE, !.tcp_to_ws = TRUE]
            OBVIOUS
        <3>4. /\ r.step = "relay" /\ r.qemu = t
              /\ r.session = con[c].session /\ r.overtaken = con[c].overtaken
            BY <3>1, <3>3 DEF Relay
        <3> QED BY <2>0, <2>2, <3>2, <3>3, <3>4, <1>b DEF ShownOK
    <2>3. ASSUME At(c, "connect"), Becomes(c, [con[c] EXCEPT !.step = "over", !.ws = "closed"])
          PROVE  ShownLedger'
        <3>1. con[c] \in Relay /\ PumpsOK(con[c]) /\ con[c].step = "connect"
            BY <2>3, <1>a DEF At
        <3> QED BY <2>0, <2>3, <3>1, <1>b DEF Relay, PumpsOK, ShownOK
    <2>4. ASSUME con[c] # None, Becomes(c, [con[c] EXCEPT !.ws = "closed"]) PROVE ShownLedger'
        BY <2>0, <2>4, <1>a, <1>b DEF Relay, ShownOK
    <2>5. ASSUME At(c, "relay"), Becomes(c, up_ends(con[c])) PROVE ShownLedger'
        BY <2>0, <2>5, <1>a, <1>b DEF At, up_ends, Gathered, Relay, ShownOK
    <2>6. ASSUME At(c, "relay"), Becomes(c, down_ends(con[c])) PROVE ShownLedger'
        BY <2>0, <2>6, <1>a, <1>b DEF At, down_ends, Gathered, Relay, ShownOK
    <2> QED BY <1>2, <2>1, <2>2, <2>3, <2>4, <2>5, <2>6, StepOfOneConsole
<1>3. CASE UNCHANGED ConsoleVars
    BY <1>3 DEF ConsoleVars, vars, row, stores, ShownLedger, ShownOK
<1> QED BY <1>1, <1>2, <1>3 DEF ConsoleNext

(***************************************************************************)
(* Whatever launches, stops, jobs, sweeps and collectors do meanwhile, and *)
(* however often arq delivers a job, a console shows the VM of its own     *)
(* session, unless that session was stopped between the lookup and the     *)
(* connection or a redelivered job has brought a stopped VM back.          *)
(***************************************************************************)
THEOREM ConsoleShows == ConsoleSpec => []ConsoleShowsOwnVM
<1>1. ConsoleInit => ShownLedger
    BY DEF ConsoleInit, ShownLedger
<1>2. ShownLedger => ConsoleShowsOwnVM
    BY DEF ShownLedger, ShownOK, ConsoleShowsOwnVM
<1> QED
    BY <1>1, <1>2, NextShown, LedgerIsExclusive, ConsoleBase, ConsoleLedger, ConsoleRelayInv, PTL
    DEF ConsoleSpec
=============================================================================
