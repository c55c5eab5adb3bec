----------------------------- MODULE MCLibrary ------------------------------
(* Programs for all host threads: collectives after one another, pipelines   *)
(* with non-blocking sends, and task farms.                                  *)
EXTENDS Library

Count     == Cardinality(Threads)
First(p)  == p + 2       \* the values that are sent: all different, and no
Second(p) == 7 - 3 * p   \* thread has the largest or the smallest of both
InEach(call, values(_)) == [p \in Threads |-> Kept([call EXCEPT !.value = values(p)])]
Bcast(root) == Call("bcast", 0, root)
Reduce(rop) == Call("reduce", 0, rop)
After(x, y) == [p \in Threads |-> x[p] \o y[p]]
One(x)      == [p \in Threads |-> <<x[p]>>]
Pair(x, y)  == After(One(InEach(x, First)), One(InEach(y, Second)))
CollectivePrograms ==
  {Pair(Bcast(q), Bcast(r)) : q, r \in Threads}
  \union {Pair(Reduce(0), Bcast(1)), Pair(Reduce(3), Bcast(0)), Pair(Bcast(2), Reduce(1)),
          Pair(Bcast(1), Reduce(2)), Pair(Reduce(2), Reduce(3))}

(* Each thread gets a number from the one before it and gives it on. *)
Recv(q)        == Kept(Call("recv", 0, q))
Give(v, q)     == <<Call("nonblocking_send", v, q), Call("wait_sent", 0, q)>>
Pipeline == [p \in Threads |->
  (IF p > 0 THEN <<Recv(p - 1), Recv(p - 1)>> ELSE <<>>) \o
  (IF p < Count - 1 THEN Give(p + 4, p + 1) \o Give(p + 6, p + 1) ELSE <<>>)]
Around == [p \in Threads |->
  <<Call("nonblocking_send", p + 3, (p + 1) % Count), Recv((p + Count - 1) % Count), Call("wait_sent", 0, (p + 1) % Count)>>]
Swap == [p \in Threads |->
  CASE p = 0 -> <<Kept(Call("sendrecv", 5, 2)), Call("send", 9, 2)>>
    [] p = 2 -> <<Kept(Call("sendrecv", 8, 0)), Recv(0)>>
    [] OTHER -> <<>>]

(* Function 1 returns an array, function 2 a number and function 3 none. *)
FunctionTable == 1 :> [length |-> 2, data |-> <<4, 6>>] @@ 2 :> [length |-> 0, data |-> <<-1>>]
                 @@ 3 :> [length |-> -1, data |-> <<>>]
Number(n)      == [length |-> 0, data |-> <<n>>]
Array(words)   == [length |-> Len(words), data |-> words]
Exec(pid, op, args) == [Call("execFunction", op, pid) EXCEPT !.args = args]
Test(pid)      == Call("testFunctionFinish", 0, pid)
Wait(pid)      == Kept(Call("waitFunctionFinish", 0, pid))
Farm(calls) == [p \in Threads |->
  IF p = MASTER THEN <<Plain("initTaskFarm")>> \o calls \o <<Plain("shutdownTaskFarm")>>
  ELSE <<Plain("worker")>>]
FarmOfTwo == Farm(<<Exec(2, 3, <<>>), Exec(2, 1, <<Number(5)>>), Test(2), Wait(2), Wait(2)>>)
Farms ==
  {FarmOfTwo} \union {Farm(calls) : calls \in
     {<<Exec(1, 2, <<Number(7)>>), Exec(2, 1, <<Array(<<8, 9>>), Number(-1)>>), Wait(1), Wait(2)>>,
      <<Exec(1, 1, <<>>), Exec(2, 2, <<>>), Test(2), Exec(2, 1, <<Array(<<3>>)>>), Exec(1, 3, <<>>)>>,
      <<>>}}

AllPrograms ==
  CollectivePrograms \union Farms
  \union {After(Pipeline, Swap), After(Around, Pipeline)}
  \union {After(After(One(InEach(Reduce(0), First)), FarmOfTwo), One(InEach(Reduce(1), First)))}
=============================================================================
