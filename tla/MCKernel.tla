------------------------------ MODULE MCKernel ------------------------------
(* A small machine: a task with a device and the system task, the memory   *)
(* manager, the file system and two user slots.                            *)
EXTENDS Kernel

CONSTANTS TTY, FS, u1

MCTask == {TTY, SYS}
MCServer == {MM, FS}
MCUser == {ORIGIN, u1}
MCBootTasks == <<TTY, SYS>>
MCBootServers == <<MM, FS>>
MCIrqTask == {TTY}

(***************************************************************************)
(* What the future of a state depends on: send_to and get_form are read    *)
(* only of a process with the flag, and a tail pointer only while it names *)
(* an element it can link behind.                                          *)
(***************************************************************************)
LiveTail(k) ==
    LET q == rq.queue[k]
        l == IF k = "user" /\ q # <<>> THEN Tail(q) ELSE q
    IN  IF \E i \in DOMAIN l : l[i] = rq.tail[k] THEN rq.tail[k] ELSE NIL

StateView ==
    <<priority, flags,
      [p \in Proc |-> IF "SENDING" \in flags[p] THEN sendTo[p] ELSE NIL],
      [p \in Proc |-> IF "RECEIVING" \in flags[p] THEN getFrom[p] ELSE NIL],
      callers, intBlocked,
      rq.queue, [k \in Classes |-> LiveTail(k)], rq.curr, secondHalf>>
=============================================================================
