------------------------------- MODULE Client -------------------------------
(***************************************************************************)
(* The connection to a pool: base/net/stratum/Client.cpp as operations on  *)
(* a record.  Everything runs in callbacks of one event loop, so that an   *)
(* operation is a function from a client to a client; who calls it, and    *)
(* when, is in Pools.                                                      *)
(*                                                                         *)
(* TLS and SOCKS5 handshakes are part of the login.  m_expire is followed  *)
(* up to the login: whether it is set decides if a client that waits for   *)
(* something is ever called again.  After the login, pings and shares set  *)
(* it and answers clear it, which only shows as a connection that is lost. *)
(***************************************************************************)
EXTENDS Integers

CONSTANTS
    Retries,     \* retries of the strategy: failures before the next pool
    Jobs         \* the jobs that the pools send, as far as they are told apart

States == {"unconnected", "hostLookup", "connecting", "connected", "closing", "reconnecting"}

NoJob == "none"

Client == [
    state    : States,                        \* m_state
    socket   : {"none", "open", "closing"},   \* m_socket, and whether uv_close was called
    failures : -1..Retries,                   \* m_failures, which counts on above Retries
    lookups  : 0..2,                          \* lookups of m_dns in flight
    expire   : {"none", "set"},               \* m_expire while tick looks at it
    job      : Jobs \cup {NoJob} ]            \* m_job, from the login to onClose

Fresh == [state |-> "unconnected", socket |-> "none", failures |-> 0, lookups |-> 0,
          expire |-> "none", job |-> NoJob]

\* The pool accepted the login.
Session(c) == c.state = "connected" /\ c.job # NoJob

\* resolve up to the call of getaddrinfo.  When that fails at once resolve
\* returns 1, which connect does not look at, and this is all that is done.
Resolve(c) ==
    [c EXCEPT !.state = "hostLookup", !.expire = "none",
              !.failures = IF @ = -1 THEN 0 ELSE @]

\* getaddrinfo took the request.
LookUp(c) == [c EXCEPT !.lookups = IF @ = 2 THEN 2 ELSE @ + 1]

\* connect: the lookup is under way, or failed at once.
Connect(c) == {LookUp(Resolve(c)), Resolve(c)}

\* Nothing is under way that would call the client again: the lookup failed
\* at once, or the connection is up, there is no session, and a line that did
\* not begin one has cleared m_expire.
Stuck(c) ==
    \/ c.state = "hostLookup" /\ c.lookups = 0 /\ c.socket = "none"
    \/ c.state = "connected" /\ ~ Session(c) /\ c.expire = "none"

\* connect was called while a lookup was under way, or beside a socket that
\* nobody closes.
Double(c) == c.lookups = 2 \/ (c.state = "hostLookup" /\ c.socket = "open")

\* close, without a socket, does nothing.
Close(c) ==
    IF c.state \in {"closing", "unconnected"} \/ c.socket = "none" THEN c
    ELSE [c EXCEPT !.state = "closing", !.socket = "closing", !.expire = "none"]

\* Mutation of Disconnect: the client goes on trying.
DisconnectOnly(c) == Close([c EXCEPT !.expire = "none"])

Disconnect(c) == Close([c EXCEPT !.failures = -1, !.expire = "none"])

\* reconnect, before the listener is told
Reconnect(c) ==
    IF c.failures = -1 THEN c
    ELSE [c EXCEPT !.state = "reconnecting", !.expire = "set",
                   !.failures = IF @ = Retries THEN @ ELSE @ + 1]

\* connect(sockaddr) when the address is known
OpenSocket(c) ==
    [c EXCEPT !.state = "connecting", !.expire = "set", !.socket = "open", !.lookups = @ - 1]

\* onClose: nobody reads m_job before the next login replaces it.
Closed(c) == Reconnect([c EXCEPT !.state = "unconnected", !.socket = "none", !.job = NoJob])

\* startTimeout, which parse begins with for every line
Heard(c) == [c EXCEPT !.expire = "none"]

\* parseJob
NewJob(c, j) == [c EXCEPT !.job = j]

\* parseLogin succeeded
LoggedIn(c, j) == [NewJob(Heard(c), j) EXCEPT !.failures = 0]

=============================================================================
