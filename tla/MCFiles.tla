------------------------------ MODULE MCFiles -------------------------------
EXTENDS Files

\* Two threads of one process, or two processes (the second after a fork).
MCLeaders == {("t" :> "p" @@ "u" :> "p"), ("t" :> "p" @@ "u" :> "q")}

\* What the behaviours call, one question each: copies of descriptors over fork,
\* exec and exit; waits; descriptors on their way; listeners; TCP; epoll.
MCPrograms ==
    {{"pipe", "dup2", "exec", "close", "fcntl", "alone"},
     {"pipe", "dup", "fork", "close", "exit"},
     {"proc", "self", "dup", "open", "close", "fork", "exit"},
     {"pipe", "read", "write", "poll", "close"},
     {"socketpair", "send", "recv", "poll"},
     {"socketpair", "shutdown", "recv", "poll", "close"},
     {"socketpair", "proc", "send", "recv", "close", "pass", "alone"},
     {"socketpair", "send", "recv", "pass", "empty_packet", "alone"},
     {"socketpair", "send", "recv", "poll", "empty_packet"},
     {"socket", "local", "bind", "listen", "connect", "accept", "close"},
     {"socket", "inet", "bind", "listen", "connect", "accept", "close"},
     {"socket", "inet", "tcp", "poll", "dup", "close"},
     {"socket", "inet", "tcp", "poll", "close", "nonblock"},
     {"eventfd", "event_read", "event_write", "epoll", "epoll_wait", "timeout"},
     {"eventfd", "proc", "epoll", "epoll_wait", "close", "alone"}}
=============================================================================
