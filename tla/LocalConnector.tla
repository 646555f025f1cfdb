---------------------------- MODULE LocalConnector ----------------------------
(***************************************************************************)
(* Connections of the local connector (connector_Forwarder_Local.c): they  *)
(* frame what comes down and find the messages in what the forwarder sends.*)
(*                                                                         *)
(* Each client is a connection, opened and closed once.  The read callback *)
(* is one step per message, "upcall" naming the connection it serves.      *)
(***************************************************************************)
EXTENDS LocalSocket

CONSTANTS
    Senders,     \* clients that send messages, the n-th with a body of Body[n]
    Closers,     \* clients that may close
    Opened,      \* bound: which clients have been opened before a client is
    MayPause,    \* CPI_PAUSE reaches the API connector
    Graceful     \* a connection closes only when the pipe has read what it wrote

ASSUME ConnectorAssumption ==
    /\ Senders \subseteq Clients /\ Closers \subseteq Clients
    /\ Opened \in [Clients -> SUBSET Clients]
    /\ {MayPause, Graceful} \subseteq BOOLEAN

VARIABLES
    state,     \* of the RtaConnection: "new", "open", "paused", "closed"
    connected,
    input,     \* the input buffer of bev_local
    upcall,    \* the connection whose input is being read, or None
    wrote,     \* messages written so far
    got,       \* messages put on the queue up, in order
    dropped,   \* messages read and thrown away, in order
    notice     \* the last status message put on the queue up

connVars == <<state, connected, input, upcall, wrote, got, dropped, notice>>

Calm == trap = None /\ upcall = None

(* connector_Fwd_Local_Opener: a connect to a socket of this machine that  *)
(* somebody listens on succeeds.                                           *)
Opener(c) ==
    /\ Calm /\ client_end[c] = "new"
    /\ \A d \in Opened[c] : client_end[d] # "new"
    /\ client_end' = [client_end EXCEPT ![c] = "connecting"]
    /\ pipe_end' = [pipe_end EXCEPT ![c] = "backlog"]
    /\ state' = [state EXCEPT ![c] = "open"]
    /\ UNCHANGED <<down, up, trap, connected, input, upcall, wrote, got, dropped, notice>>

(* Nobody listens: the connect is refused at once and the opener aborts. *)
OpenerFails(c) ==
    /\ Calm /\ client_end[c] = "new"
    /\ trap' = "connector_Fwd_Local_Opener"
    /\ UNCHANGED <<sockets, connVars>>

(* connector_Fwd_Local_Upcall_Event: connected. *)
UpcallConnected(c) ==
    /\ Calm /\ client_end[c] = "connecting"
    /\ client_end' = [client_end EXCEPT ![c] = "connected"]
    /\ connected' = [connected EXCEPT ![c] = TRUE]
    /\ notice' = [notice EXCEPT ![c] = "CONNECTION_OPEN"]
    /\ UNCHANGED <<pipe_end, down, up, trap, state, input, upcall, wrote, got, dropped>>

(* connector_Fwd_Local_Upcall_Event: a write to a pipe that has gone. The  *)
(* end of the stream alone is an event the callback does nothing about.    *)
UpcallError(c) ==
    /\ Calm /\ client_end[c] = "connected" /\ pipe_end[c] = "closed"
    /\ down[c] # <<>>
    /\ notice' = [notice EXCEPT ![c] = "FORWARDER_NOT_AVAILABLE"]
    /\ UNCHANGED <<sockets, trap, state, connected, input, upcall, wrote, got, dropped>>

(* The library reads what has arrived and calls connector_Fwd_Local_Upcall_Read. *)
Arrive(c) ==
    /\ Calm /\ client_end[c] = "connected"
    /\ \E n \in 1..Len(up[c]) :
           /\ input' = [input EXCEPT ![c] = @ \o Prefix(up[c], n)]
           /\ up' = [up EXCEPT ![c] = Rest(@, n)]
    /\ upcall' = c
    /\ UNCHANGED <<client_end, pipe_end, down, trap, state, connected, wrote, got, dropped, notice>>

MessageRead(units, length) == Rest(units, HeaderSize + length)

(* Mutant: what is read last goes up first. *)
SentUp_First(queue, message) == <<message>> \o queue

SentUp(queue, message) == Append(queue, message)

(* connector_Fwd_Local_Upcall_Read, one turn of its loop: a message that   *)
(* is there with its header goes up when the connection is open.           *)
UpcallRead(c) ==
    /\ trap = None /\ upcall = c
    /\ \/ /\ Len(input[c]) < HeaderSize
          /\ upcall' = None /\ UNCHANGED <<input, got, dropped>>
       \/ /\ Len(input[c]) >= HeaderSize
          /\ \E length \in HeaderLengths(input[c]) :
                IF Len(input[c]) < HeaderSize + length
                THEN upcall' = None /\ UNCHANGED <<input, got, dropped>>
                ELSE LET message == <<input[c][1][1], input[c][1][2]>> IN
                     /\ input' = [input EXCEPT ![c] = MessageRead(@, length)]
                     /\ IF state[c] = "open"
                        THEN got' = [got EXCEPT ![c] = SentUp(@, message)] /\ UNCHANGED dropped
                        ELSE dropped' = [dropped EXCEPT ![c] = Append(@, message)] /\ UNCHANGED got
                     /\ UNCHANGED upcall
    /\ UNCHANGED <<sockets, trap, state, connected, wrote, notice>>

(* connector_Fwd_Local_WriteIovec: the header, and then the message. *)
DowncallRead(c) ==
    /\ Calm /\ state[c] \in {"open", "paused"}
    /\ c \in Senders /\ wrote[c] < Len(Body)
    /\ down' = [down EXCEPT ![c] = @ \o MessageUnits(c, wrote[c] + 1)]
    /\ wrote' = [wrote EXCEPT ![c] = @ + 1]
    /\ UNCHANGED <<client_end, pipe_end, up, trap, state, connected, input, upcall, got, dropped, notice>>

(* The API connector sets the state (rta_ApiConnection.c). *)
Pause(c) ==
    /\ Calm /\ MayPause /\ state[c] = "open"
    /\ state' = [state EXCEPT ![c] = "paused"]
    /\ UNCHANGED <<sockets, trap, connected, input, upcall, wrote, got, dropped, notice>>

(* connector_Fwd_Local_Closer: the buffers go with the event queue, so     *)
(* what was written and not yet sent is cut anywhere.                      *)
Closer(c) ==
    /\ Calm /\ c \in Closers /\ state[c] \in {"open", "paused"}
    /\ Graceful => (down[c] = <<>> /\ pipe_end[c] = "open")
    /\ state' = [state EXCEPT ![c] = "closed"]
    /\ client_end' = [client_end EXCEPT ![c] = "closed"]
    /\ \E n \in 0..Len(down[c]) : down' = [down EXCEPT ![c] = Prefix(@, n)]
    /\ up' = [up EXCEPT ![c] = <<>>]
    /\ input' = [input EXCEPT ![c] = <<>>]
    /\ UNCHANGED <<pipe_end, trap, connected, upcall, wrote, got, dropped, notice>>

-----------------------------------------------------------------------------
ConnectorInit ==
    /\ state = [c \in Clients |-> "new"]
    /\ connected = [c \in Clients |-> FALSE]
    /\ input = [c \in Clients |-> <<>>]
    /\ upcall = None
    /\ wrote = [c \in Clients |-> 0]
    /\ got = [c \in Clients |-> <<>>]
    /\ dropped = [c \in Clients |-> <<>>]
    /\ notice = [c \in Clients |-> None]

ConnectorCallback(c) == UpcallConnected(c) \/ UpcallError(c) \/ Arrive(c) \/ UpcallRead(c)

FromAbove(c) == DowncallRead(c) \/ Pause(c) \/ Closer(c)
=============================================================================
