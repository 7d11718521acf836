-------------------------------- MODULE IPAM --------------------------------
(***************************************************************************)
(* The /ipam sidechannel (ipam.go) through which the native backend's CNI  *)
(* plugin gets container addresses, and the two startup steps that set up  *)
(* addressing (InitFunctionStore, CreateWasmInterfaces).                   *)
(*                                                                         *)
(* Each HTTP request runs in its own goroutine. LastReservedIP advances    *)
(* nextIP under metricMu, one step. Reserve and ReleaseBy are a sync.Map   *)
(* Load and then a Store or Delete, two steps. The plugin is outside the   *)
(* repository: its ADD asks LastReservedIP and then Reserves that address  *)
(* for the container, it may give up on an ADD and try again (the old      *)
(* handler runs on), and its DEL asks ReleaseBy. A restart of the provider *)
(* ends every handler, resets nextIP and empties ipconfigs, while the      *)
(* containers keep the addresses they were given.                          *)
(*                                                                         *)
(* Addresses are IPv4 addresses packed into a number, as getNextIP does.   *)
(***************************************************************************)
EXTENDS Naturals, Sequences, FiniteSets

CONSTANTS
    Ctrs,               \* container ids the plugin adds (model values)
    MaxTries,           \* bound: ADD attempts per container
    MaxRestarts,        \* bound: restarts of the provider
    MaxWasmContainers,  \* cfg.MaxWasmContainers, the size CreateWasmInterfaces is asked for
    WasmnetNamespaces   \* numNS of the wasmnet utility that creates the namespaces

ASSUME MaxTries \in Nat \ {0} /\ MaxRestarts \in Nat
\* CreateWasmInterfaces(0) panics on fs.netnsList[0]: the provider never starts.
ASSUME MaxWasmContainers \in Nat \ {0} /\ WasmnetNamespaces \in Nat

VARIABLES
    nextIP,     \* fs.nextIP
    ipconfigs,  \* fs.ipconfigs: container id -> reserved address, or NoAddr
    netnsList,  \* fs.netnsList as CreateWasmInterfaces built it
    lifetime,   \* restarts so far (the process lifetime we are in)
    ctr,        \* the plugin's view of each container
    req         \* the handler goroutine of each ADD attempt

vars == <<nextIP, ipconfigs, netnsList, lifetime, ctr, req>>

Tries == 1..MaxTries
Attempts == Ctrs \X Tries
NoAddr == 0

IPv4(a, b, c, d) == ((a * 256 + b) * 256 + c) * 256 + d

\* getNextIP: pack the four octets, add, and keep the low byte of each
\* shift (v < 2^31 here: every address starts with 10).
getNextIP(ip, inc) ==
    LET v == ip + inc
    IN  IPv4((v \div 16777216) % 256, (v \div 65536) % 256, (v \div 256) % 256, v % 256)

Base == IPv4(10, 62, 0, 1)   \* InitFunctionStore: fs.nextIP

\* Body k times: the halves are iterated in turn, so the recursion is only
\* log2(k) deep. (st.ns, the loop variable, is never 0; testing it makes
\* TLC evaluate st before it recurses.)
RECURSIVE Iterate(_, _, _)
Iterate(Body(_), k, st) ==
    IF k = 0 \/ st.ns = 0 THEN st
    ELSE IF k = 1 THEN Body(st)
    ELSE Iterate(Body, k - k \div 2, Iterate(Body, k \div 2, st))

\* The third and fourth octets after one pass of the loops below: past .254
\* the fourth starts again at 1 and the third is incremented.
Carry(st) ==
    IF st.v3 > 254 THEN [st EXCEPT !.v2 = @ + 1, !.v3 = 1] ELSE st

\* One pass of the loop of CreateWasmInterfaces: append the namespace ns
\* with address 10.63.v2.v3 to fs.netnsList.
NSStep(st) ==
    LET c == Carry(st)
    IN  [c EXCEPT !.ns = @ + 1, !.v3 = @ + 1,
                  !.list = Append(@, [netnsNum |-> st.ns, IP |-> IPv4(10, 63, c.v2, c.v3)])]

\* The loop started at a fourth octet of 0.
CreateWasmInterfacesFromZero(numNS) ==
    Iterate(NSStep, IF numNS > 1000 THEN 1000 ELSE numNS,
            [ns |-> 1, v2 |-> 100, v3 |-> 0, list |-> << >>]).list

\* CreateWasmInterfaces: numNS clamped at 1000, then the loop from 10.63.100.1.
CreateWasmInterfaces(numNS) ==
    Iterate(NSStep, IF numNS > 1000 THEN 1000 ELSE numNS,
            [ns |-> 1, v2 |-> 100, v3 |-> 1, list |-> << >>]).list

\* One pass of the loop of the wasmnet utility: namespace fe_wasm_netns<ns>
\* gets address 10.63.v2.v3 (the ip commands that build it are left out).
WasmnetStep(st) ==
    LET c == Carry(st)
    IN  [c EXCEPT !.ns = @ + 1, !.v3 = @ + 1, !.list = Append(@, IPv4(10, 63, c.v2, c.v3))]

\* The addresses wasmnet gives its numNS namespaces, by namespace number.
WasmnetAddrs ==
    Iterate(WasmnetStep, WasmnetNamespaces,
            [ns |-> 1, v2 |-> 100, v3 |-> 1, list |-> << >>]).list

Init ==
    /\ nextIP = Base
    /\ ipconfigs = [c \in Ctrs |-> NoAddr]
    /\ netnsList = CreateWasmInterfaces(MaxWasmContainers)
    /\ lifetime = 0
    /\ ctr = [c \in Ctrs |-> [pc |-> "new", try |-> 0, ip |-> NoAddr, life |-> 0]]
    /\ req = [a \in Attempts |-> [pc |-> "idle", ip |-> NoAddr]]

Current(a) == ctr[a[1]].pc = "adding" /\ ctr[a[1]].try = a[2]

\* The plugin starts an ADD, or gives up on the one in flight and starts
\* another (MakeIPAMHandler dispatches its LastReservedIP request).
AddStart(c) ==
    /\ \/ ctr[c].pc = "new"
       \/ ctr[c].pc = "adding" /\ req[<<c, ctr[c].try>>].pc \in {"lrip", "load", "store"}
    /\ ctr[c].try < MaxTries
    /\ ctr' = [ctr EXCEPT ![c].pc = "adding", ![c].try = @ + 1]
    /\ req' = [req EXCEPT ![<<c, ctr[c].try + 1>>].pc = "lrip"]
    /\ UNCHANGED <<nextIP, ipconfigs, netnsList, lifetime>>

\* LastReservedIP without metricMu: nextIP is read and written back in
\* two steps.
LastReservedIPUnlocked(a) ==
    /\ req[a].pc = "lrip"
    /\ \/ /\ req[a].ip = NoAddr
          /\ req' = [req EXCEPT ![a].ip = nextIP]
          /\ UNCHANGED nextIP
       \/ /\ req[a].ip /= NoAddr
          /\ nextIP' = getNextIP(req[a].ip, 1)
          /\ req' = [req EXCEPT ![a].pc = IF Current(a) THEN "load" ELSE "done"]
    /\ UNCHANGED <<ipconfigs, netnsList, lifetime, ctr>>

\* LastReservedIP advancing nextIP by two.
LastReservedIPSkip(a) ==
    /\ req[a].pc = "lrip"
    /\ nextIP' = getNextIP(nextIP, 2)
    /\ req' = [req EXCEPT ![a] = [pc |-> IF Current(a) THEN "load" ELSE "done", ip |-> nextIP]]
    /\ UNCHANGED <<ipconfigs, netnsList, lifetime, ctr>>

\* LastReservedIP: under metricMu, answer nextIP and advance it. A plugin
\* still waiting sends Reserve with that address; one that gave up never does.
LastReservedIP(a) ==
    /\ req[a].pc = "lrip"
    /\ nextIP' = getNextIP(nextIP, 1)
    /\ req' = [req EXCEPT ![a] = [pc |-> IF Current(a) THEN "load" ELSE "done", ip |-> nextIP]]
    /\ UNCHANGED <<ipconfigs, netnsList, lifetime, ctr>>

\* The answer of attempt a reaches the plugin only if it still waits on a.
Answer(a, pc, ip) ==
    ctr' = IF Current(a)
           THEN [ctr EXCEPT ![a[1]] = [@ EXCEPT !.pc = pc, !.ip = ip, !.life = lifetime]]
           ELSE ctr

\* Reserve, first half: Load(id); a reservation for the id answers "false".
ReserveLoad(a) ==
    /\ req[a].pc = "load"
    /\ IF ipconfigs[a[1]] /= NoAddr
       THEN /\ req' = [req EXCEPT ![a].pc = "done"]
            /\ Answer(a, "failed", NoAddr)
       ELSE /\ req' = [req EXCEPT ![a].pc = "store"]
            /\ UNCHANGED ctr
    /\ UNCHANGED <<nextIP, ipconfigs, netnsList, lifetime>>

\* Reserve, second half: Store(id, ip) and answer "true".
ReserveStore(a) ==
    /\ req[a].pc = "store"
    /\ ipconfigs' = [ipconfigs EXCEPT ![a[1]] = req[a].ip]
    /\ req' = [req EXCEPT ![a].pc = "done"]
    /\ Answer(a, "up", req[a].ip)
    /\ UNCHANGED <<nextIP, netnsList, lifetime>>

\* The plugin's DEL of a container that got an address or failed to.
DelStart(c) ==
    /\ ctr[c].pc \in {"up", "failed"}
    /\ ctr' = [ctr EXCEPT ![c].pc = "rload"]
    /\ UNCHANGED <<nextIP, ipconfigs, netnsList, lifetime, req>>

\* ReleaseBy, first half: Load(id); no reservation answers "false".
ReleaseLoad(c) ==
    /\ ctr[c].pc = "rload"
    /\ ctr' = [ctr EXCEPT ![c].pc = IF ipconfigs[c] = NoAddr THEN "gone" ELSE "rdelete"]
    /\ UNCHANGED <<nextIP, ipconfigs, netnsList, lifetime, req>>

\* ReleaseBy, second half: Delete(id) and answer "true".
ReleaseDelete(c) ==
    /\ ctr[c].pc = "rdelete"
    /\ ipconfigs' = [ipconfigs EXCEPT ![c] = NoAddr]
    /\ ctr' = [ctr EXCEPT ![c].pc = "gone"]
    /\ UNCHANGED <<nextIP, netnsList, lifetime, req>>

\* The provider restarts: InitFunctionStore sets nextIP to 10.62.0.1, the
\* sync.Map starts empty and CreateWasmInterfaces runs again. Handlers in
\* flight end, so ADDs and DELs waiting on them fail; running containers
\* keep their addresses.
Restart ==
    /\ lifetime < MaxRestarts
    /\ lifetime' = lifetime + 1
    /\ nextIP' = Base
    /\ ipconfigs' = [c \in Ctrs |-> NoAddr]
    /\ netnsList' = CreateWasmInterfaces(MaxWasmContainers)
    /\ req' = [a \in Attempts |-> IF req[a].pc = "idle" THEN req[a] ELSE [req[a] EXCEPT !.pc = "done"]]
    /\ ctr' = [c \in Ctrs |-> CASE ctr[c].pc = "adding" -> [ctr[c] EXCEPT !.pc = "failed"]
                                [] ctr[c].pc \in {"rload", "rdelete"} -> [ctr[c] EXCEPT !.pc = "gone"]
                                [] OTHER -> ctr[c]]

\* Every container deleted: nothing more happens.
Finished ==
    /\ \A c \in Ctrs : ctr[c].pc = "gone"
    /\ UNCHANGED vars

Next ==
    \/ \E c \in Ctrs : AddStart(c) \/ DelStart(c) \/ ReleaseLoad(c) \/ ReleaseDelete(c)
    \/ \E a \in Attempts : LastReservedIP(a) \/ ReserveLoad(a) \/ ReserveStore(a)
    \/ Restart
    \/ Finished

Spec == Init /\ [][Next]_vars

(***************************************************************************)
(* Properties                                                              *)
(***************************************************************************)

Addrs == {NoAddr} \cup {getNextIP(Base, k) : k \in 0..(Cardinality(Attempts))}

TypeOK ==
    /\ nextIP \in Addrs
    /\ ipconfigs \in [Ctrs -> Addrs]
    /\ lifetime \in 0..MaxRestarts
    /\ ctr \in [Ctrs -> [pc : {"new", "adding", "up", "failed", "rload", "rdelete", "gone"},
                         try : 0..MaxTries, ip : Addrs, life : 0..MaxRestarts]]
    /\ req \in [Attempts -> [pc : {"idle", "lrip", "load", "store", "done"}, ip : Addrs]]

Running(c) == ctr[c].pc \in {"up", "rload", "rdelete"} /\ ctr[c].ip /= NoAddr

\* Two containers given their addresses in the same process lifetime hold
\* different addresses, although ADDs run concurrently and abandoned
\* attempts still take addresses (metricMu around nextIP in LastReservedIP).
AddressesDistinctInLifetime ==
    \A c, d \in Ctrs :
        c /= d /\ Running(c) /\ Running(d) /\ ctr[c].life = ctr[d].life
            => ctr[c].ip /= ctr[d].ip

\* No two running containers hold the same address, whatever restarts lay
\* between their ADDs (InitFunctionStore resets nextIP after a restart).
AddressesUnique ==
    \A c, d \in Ctrs :
        c /= d /\ Running(c) /\ Running(d) => ctr[c].ip /= ctr[d].ip

\* Every entry of the namespace pool CreateWasmInterfaces built names a
\* namespace the wasmnet utility created, with the address wasmnet gave it.
WasmPoolMatchesNamespaces ==
    \A i \in DOMAIN netnsList :
        LET e == netnsList[i]
        IN  e.netnsNum \in DOMAIN WasmnetAddrs /\ WasmnetAddrs[e.netnsNum] = e.IP

=============================================================================
