-------------------------------- MODULE Console --------------------------------
(***************************************************************************)
(* The console relay (routers/console.py, services/console_proxy.py) beside *)
(* the VMs it shows: VMLifecycle goes on while a console looks up its       *)
(* session, accepts the WebSocket, connects to the VNC port it read and     *)
(* pumps bytes both ways.  A session stands for the token provision_vm gave *)
(* it; when a job that runs again has replaced the token, the model goes on *)
(* accepting the old one.                                                   *)
(***************************************************************************)
EXTENDS VMLifecycle

CONSTANT Consoles      \* consoles open at once (bound)

VARIABLE con

(***************************************************************************)
(* session, vnc_port - the row as it was read; qemu - the session whose     *)
(* QEMU answered; ws, tcp - the two sockets; ws_to_tcp, tcp_to_ws - the     *)
(* pumps; overtaken - history: the session was stopped between the two.     *)
(***************************************************************************)
Relay == [step : {"connect", "relay", "over"}, session : Sessions, vnc_port : Ports,
          qemu : Sessions \union {None}, ws : {"open", "closed"}, tcp : {"none", "open", "closed"},
          ws_to_tcp : BOOLEAN, tcp_to_ws : BOOLEAN, overtaken : BOOLEAN]

ASSUME ConsoleAssumption == None \notin Relay

ConsoleInit == Init /\ con = [c \in Consoles |-> None]

At(c, step) == con[c] # None /\ con[c].step = step

\* Mutant: the state is not compared.
lookup_any_state(token) == {s \in Sessions : s = token}

\* The row the SELECT finds.
lookup(token) == {s \in Sessions : s = token /\ state[s] = "running"}

\* The row is read, then websocket.accept().  Otherwise the socket is closed
\* with 4001 and nothing has happened.
console_ws(c, token) ==
    /\ con[c] = None \/ At(c, "over")
    /\ \E s \in lookup(token) :
          /\ vnc_port[s] # None
          /\ con' = [con EXCEPT ![c] =
                [step |-> "connect", session |-> token, vnc_port |-> vnc_port[s], qemu |-> None,
                 ws |-> "open", tcp |-> "none", ws_to_tcp |-> FALSE, tcp_to_ws |-> FALSE,
                 overtaken |-> FALSE]]

\* The QEMU that listens on port q.
Listening(q) == {t \in Sessions : domain[t] \in Live /\ dom_port[t] = q}

relay_connects(c) ==
    /\ At(c, "connect")
    /\ \E t \in Listening(con[c].vnc_port) :
          con' = [con EXCEPT ![c].step = "relay", ![c].qemu = t, ![c].tcp = "open",
                             ![c].ws_to_tcp = TRUE, ![c].tcp_to_ws = TRUE]

\* Mutant: the WebSocket is left open.
relay_refused_silently(c) ==
    /\ At(c, "connect")
    /\ Listening(con[c].vnc_port) = {}
    /\ con' = [con EXCEPT ![c].step = "over"]

\* Connection refused: websocket.close(code=4002).
relay_refused(c) ==
    /\ At(c, "connect")
    /\ Listening(con[c].vnc_port) = {}
    /\ con' = [con EXCEPT ![c].step = "over", ![c].ws = "closed"]

\* The browser goes away, at any time.
browser_leaves(c) ==
    /\ con[c] # None /\ con[c].ws = "open"
    /\ con' = [con EXCEPT ![c].ws = "closed"]

\* Mutant: the handler returns when the first pump does.
Gathered_first(r) == [r EXCEPT !.step = IF r.ws_to_tcp /\ r.tcp_to_ws THEN "relay" ELSE "over"]

\* gather returns when both pumps have.
Gathered(r) == [r EXCEPT !.step = IF r.ws_to_tcp \/ r.tcp_to_ws THEN "relay" ELSE "over"]

\* Mutant: no finally, the connection to QEMU is left open.
up_ends_open(r) == Gathered([r EXCEPT !.ws_to_tcp = FALSE])

\* ws_to_tcp ends: finally writer.close().
up_ends(r) == Gathered([r EXCEPT !.ws_to_tcp = FALSE, !.tcp = "closed"])

\* tcp_to_ws ends: finally websocket.close().
down_ends(r) == Gathered([r EXCEPT !.tcp_to_ws = FALSE, !.ws = "closed"])

\* receive_bytes finds the WebSocket closed; read finds the connection closed.
ws_to_tcp(c) ==
    /\ At(c, "relay") /\ con[c].ws_to_tcp /\ con[c].ws = "closed"
    /\ con' = [con EXCEPT ![c] = up_ends(@)]

tcp_to_ws(c) ==
    /\ At(c, "relay") /\ con[c].tcp_to_ws /\ con[c].tcp = "closed"
    /\ con' = [con EXCEPT ![c] = down_ends(@)]

\* There were bytes to pass on, and the other socket is closed.
write_fails(c) ==
    /\ At(c, "relay") /\ con[c].ws_to_tcp /\ con[c].tcp = "closed"
    /\ con' = [con EXCEPT ![c] = up_ends(@)]

send_fails(c) ==
    /\ At(c, "relay") /\ con[c].tcp_to_ws /\ con[c].ws = "closed"
    /\ con' = [con EXCEPT ![c] = down_ends(@)]

relay_step(c) == relay_connects(c) \/ relay_refused(c) \/ ws_to_tcp(c) \/ tcp_to_ws(c)

console_step(c) ==
    /\ \/ \E s \in Sessions : console_ws(c, s)
       \/ browser_leaves(c) \/ relay_step(c) \/ write_fails(c) \/ send_fails(c)
    /\ UNCHANGED vars

\* QEMU closes its connections when it ends.
Hangup(r) == [r EXCEPT !.tcp = IF @ = "open" /\ domain'[r.qemu] \notin Live THEN "closed" ELSE @,
                       !.overtaken = @ \/ (r.step = "connect" /\ state'[r.session] # "running")]

vm_step == Next /\ con' = [c \in Consoles |-> IF con[c] = None THEN None ELSE Hangup(con[c])]

ConsoleNext == vm_step \/ \E c \in Consoles : console_step(c)

ConsoleVars == <<vars, con>>
ConsoleSpec == ConsoleInit /\ [][ConsoleNext]_ConsoleVars

\* The API serves its coroutines; browsers and VMs do as they like, and no
\* bytes have to come.
ConsoleFairSpec ==
    ConsoleSpec /\ \A c \in Consoles : WF_ConsoleVars(relay_step(c) /\ UNCHANGED vars)

-----------------------------------------------------------------------------
\* The consoles' records, beside VMLifecycle's types; a handler is in relay
\* exactly while it has a pump.
ConsoleTypeOK ==
    /\ TypeOK /\ con \in [Consoles -> Relay \union {None}]
    /\ \A c \in Consoles : con[c] # None => (con[c].step = "relay") = (con[c].ws_to_tcp \/ con[c].tcp_to_ws)

(***************************************************************************)
(* console_proxy.py: the token has "proven the connecting user owns a       *)
(* `running` VM session".  The port is read before the connection is made,  *)
(* and the session may be stopped and its port given to another one in      *)
(* between.  But for that, whatever launches, stops and redelivered jobs    *)
(* did before, a console is connected to the VM of its own session; excepted *)
(* are histories in which a job brought a stopped VM back (reborn), so that *)
(* a stop with an old copy may have freed a port that is in use.            *)
(***************************************************************************)
ConsoleShowsOwnVM ==
    \A c \in Consoles : con[c] # None /\ con[c].tcp = "open" =>
        con[c].qemu = con[c].session \/ con[c].overtaken \/ reborn # {}

(***************************************************************************)
(* A console that is over leaves neither its WebSocket nor its connection   *)
(* to QEMU open, in whatever order the two ends went away and the pumps     *)
(* noticed.                                                                 *)
(***************************************************************************)
OverIsClosed ==
    \A c \in Consoles : At(c, "over") => con[c].ws = "closed" /\ con[c].tcp # "open"

(***************************************************************************)
(* Either end that goes away ends the relay: a browser that leaves, and a   *)
(* VM that is destroyed ("be cut off immediately").                         *)
(***************************************************************************)
EndsTogether ==
    \A c \in Consoles :
        At(c, "relay") /\ (con[c].ws = "closed" \/ con[c].tcp = "closed") ~> ~At(c, "relay")
=============================================================================
