------------------------------ MODULE MCClient ------------------------------
(* Two processes at a time, three commands in all: pushes and pulls with   *)
(* and without -u to two servers, the commands that only read, and create. *)
EXTENDS ClientHistory, TLC

CONSTANTS p1, p2, s1, s2, alice, misspelt, bootstrap

MCProcs == {p1, p2}
MCAddresses == {s1, s2, alice}

Symmetric == Permutations(MCProcs)

CommandLine(name, upstream, flags, server, user, env) ==
    [name |-> name, upstream |-> upstream, flags |-> flags,
     server |-> server, user |-> user, env |-> env]

MCCommands ==
    {CommandLine("push", TRUE, {"tcp", "smp"}, s1, alice, bootstrap),
     CommandLine("push", FALSE, {}, None, None, None),
     CommandLine("push", TRUE, {}, misspelt, alice, bootstrap),
     CommandLine("pull", TRUE, {"ssh"}, s2, alice, None),
     CommandLine("pull", TRUE, {"force"}, s2, None, None),
     CommandLine("list", FALSE, {}, s1, None, None),
     CommandLine("watch", FALSE, {"http"}, None, None, bootstrap),
     CommandLine("create", FALSE, {}, s1, alice, bootstrap),
     CommandLine("cfm push", FALSE, {"force"}, s1, None, bootstrap)}
=============================================================================
