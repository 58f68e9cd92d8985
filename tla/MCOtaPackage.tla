---------------------------- MODULE MCOtaPackage -----------------------------
(* Payloads of less than a chunk, one, between one and two, two, and three.  *)
EXTENDS OtaPackage

K == "uImage"
S == "hsqs"
MCCores == {
    [xImage |-> <<K>>, rootfs |-> <<S, "a">>, zero |-> <<"a">>, head |-> "1"],
    [xImage |-> <<K, "a", "b">>, rootfs |-> <<S, "a">>, zero |-> <<"a">>, head |-> "2"],
    [xImage |-> <<K, "a", "b", "a">>, rootfs |-> <<S>>, zero |-> <<"a", "b", "a">>, head |-> "3"],
    [xImage |-> <<K>>, rootfs |-> <<S, "b", "a", "a", "b">>, zero |-> <<"a">>, head |-> "4"]}
MCCapacity == [kernel |-> 4, rootfs |-> 5, rtos |-> 2]
FileNames == Permutations(Files)
=============================================================================
