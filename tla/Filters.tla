------------------------------ MODULE Filters ------------------------------
(***************************************************************************)
(* The acceptance filters of a node (libuavcan:                            *)
(* CanAcceptanceFilterConfigurator; uavcan_linux: the filters of           *)
(* SocketCanIface) and the way of a frame past them: compiled, through     *)
(* arbitration and the socket, filtered and parsed.                        *)
(***************************************************************************)
EXTENDS Frame, SequencesExt

CONSTANTS
  Self,         \* the node's ID
  Setups,       \* listeners and filters of the node, and bounds on what is done
  MaxConfigs,   \* configurations the memory has room for
  Custom,       \* configurations the application may add
  Frames,       \* what other nodes send
  Crcs,         \* CRCs of anonymous frames
  None

VARIABLES
  listeners,  \* data type IDs of the message listeners
  filters,    \* getNumFilters(), or filters_number_
  anonymous,  \* the mode of the last computeConfiguration
  configs,    \* multiset_configs_, in the order it is gone through
  added,      \* what was added after the last computeConfiguration
  hw,         \* hw_filters_container_; none accept all
  ready,      \* what hw was configured for, or None
  pending,    \* frames of other nodes that compete for the bus
  received,   \* the last frame of the bus, and what became of it
  left        \* how many frames, and calls of the configurator, are still to come

filtersVars == <<listeners, filters, anonymous, configs, added, hw, ready, pending, received, left>>

FiltersInit ==
  /\ \E s \in Setups : listeners = s.listeners /\ filters = s.filters /\ left = [frames |-> s.frames, calls |-> s.calls]
  /\ anonymous = TRUE /\ configs = <<>> /\ added = {} /\ hw = <<>>
  /\ ready = None /\ pending = {} /\ received = None

Exact == {EFF, RTR, ERR}
config(id, mask) == [id |-> {EFF} \cup id, mask |-> Exact \cup mask]

\* The order of the configurations in loadInputConfiguration; it stops when memory is out.
Loaded(mode) ==
  LET anon == IF mode THEN <<config({}, 0..7)>> ELSE <<>>
      service == config({7} \cup bitpack(8, 7, Self), 7..14)
      messages == [i \in 1..Cardinality(listeners) |->
                     config(bitpack(8, 16, SetToSeq(listeners)[i]), 7..23)]
  IN anon \o <<service>> \o messages

\* Where they disagree, the first is followed.
mergeFiltersFirst(a, b) ==
  LET mask == a.mask \cap b.mask
  IN [id |-> a.id \cap mask, mask |-> mask]

\* mergeFilters: what both ask for and agree in.
mergeFilters(a, b) ==
  LET mask == (a.mask \cap b.mask) \ ((a.id \ b.id) \cup (b.id \ a.id))
  IN [id |-> a.id \cap mask, mask |-> mask]

\* The pair whose merge keeps most bits, the first of them; the first configuration with
\* itself when none keeps any.
BestPair(cs) ==
  LET rank(p) == Cardinality(mergeFilters(cs[p[1]], cs[p[2]]).mask)
      before(p, q) == p[1] < q[1] \/ (p[1] = q[1] /\ p[2] < q[2])
      pairs == {p \in (1..Len(cs)) \X (1..Len(cs)) : p[1] < p[2] /\ rank(p) > 0}
  IN IF pairs = {} THEN <<1, 1>>
     ELSE CHOOSE p \in pairs :
            \A q \in pairs : rank(q) < rank(p) \/ (rank(q) = rank(p) /\ (q = p \/ before(p, q)))

\* Multiset::removeFirst, then the slots that are left in order.
removeFirst(cs, c) ==
  LET i == CHOOSE j \in 1..Len(cs) : cs[j] = c /\ \A k \in 1..j - 1 : cs[k] # c
  IN RemoveAt(cs, i)

\* mergeConfigurations
RECURSIVE mergeConfigurations(_)
mergeConfigurations(cs) ==
  IF Len(cs) <= filters THEN cs
  ELSE LET p == BestPair(cs)
           merged == [cs EXCEPT ![p[2]] = mergeFilters(cs[p[1]], cs[p[2]])]
       IN mergeConfigurations(removeFirst(merged, merged[p[1]]))

-----------------------------------------------------------------------------
Call == left.calls > 0 /\ left' = [left EXCEPT !.calls = @ - 1]

\* computeConfiguration(mode)
Compute(mode) ==
  LET all == Loaded(mode)
  IN /\ Call /\ filters > 0
     /\ anonymous' = mode /\ added' = {}
     /\ configs' = IF Len(all) > MaxConfigs THEN SubSeq(all, 1, MaxConfigs) ELSE mergeConfigurations(all)
     /\ UNCHANGED <<listeners, filters, hw, ready, pending, received>>

\* addFilterConfig(c), after computeConfiguration
AddConfig(c) ==
  /\ Call /\ Len(configs) \in 1..MaxConfigs - 1 /\ c \notin added
  /\ configs' = Append(configs, c) /\ added' = added \cup {c}
  /\ UNCHANGED <<listeners, filters, anonymous, hw, ready, pending, received>>

\* SocketCanIface::configureFilters: the flag of error frames is not among the socket's.
configureFilters(cs) == [i \in 1..Len(cs) |-> [id |-> cs[i].id \ {ERR}, mask |-> cs[i].mask \ {ERR}]]

\* applyConfiguration, of a configuration that was computed.
Apply ==
  LET cs == mergeConfigurations(configs)
  IN /\ Call /\ filters > 0 /\ configs # <<>>
     /\ Len(Loaded(anonymous)) <= MaxConfigs
     /\ configs' = cs
     /\ hw' = configureFilters(cs)
     /\ ready' = [topics |-> listeners, anonymous |-> anonymous, added |-> added]
     /\ received' = None
     /\ UNCHANGED <<listeners, filters, anonymous, added, pending>>

-----------------------------------------------------------------------------
\* SocketCanIface::checkHWFilters
checkHWFilters(s) == hw = <<>> \/ \E i \in 1..Len(hw) : s.id \cap hw[i].mask = hw[i].id

\* Another node has a frame to send; the bus takes the one that wins.
Compete(f, crc) ==
  /\ isValid(f)
  /\ \A p \in pending : p.frame.src # f.src
  /\ left.frames > 0 /\ left' = [left EXCEPT !.frames = @ - 1]
  /\ pending' = pending \cup {[frame |-> f, can |-> compile(f, crc)]}
  /\ received' = None
  /\ UNCHANGED <<listeners, filters, anonymous, configs, added, hw, ready>>

\* What the node makes of a CAN frame of the bus.
Taken(can) ==
  LET s == makeSocketCanFrame(can)
      c == makeUavcanFrame(s)
  IN IF checkHWFilters(s) /\ parsable(c) /\ isValid(parse(c)) THEN parse(c) ELSE None

Transmit(p) ==
  /\ \A q \in pending \ {p} : priorityHigherThan(p.can, q.can)
  /\ pending' = pending \ {p}
  /\ received' = [sent |-> p, taken |-> Taken(p.can)]
  /\ UNCHANGED <<listeners, filters, anonymous, configs, added, hw, ready, left>>

FiltersNext ==
  \/ \E mode \in BOOLEAN : Compute(mode)
  \/ \E c \in Custom : AddConfig(c)
  \/ Apply
  \/ \E f \in Frames, crc \in Crcs : Compete(f, crc)
  \/ \E p \in pending : Transmit(p)

FiltersSpec == FiltersInit /\ [][FiltersNext]_filtersVars

-----------------------------------------------------------------------------
\* Frames the filters were made for: messages the node listens to, services addressed to
\* it, anonymous messages if it takes them, and what the application added.
Wanted(p) ==
  \/ ready = None
  \/ p.frame.type = "message" /\ p.frame.dtid \in ready.topics /\ p.frame.src # Broadcast
  \/ p.frame.type # "message" /\ p.frame.dst = Self
  \/ ready.anonymous /\ p.frame.src = Broadcast
  \/ \E c \in ready.added : p.can.id \cap c.mask = c.id

\* However the configurations had to be merged to fit the filters, a frame the node wants
\* passes them and is read as the frame that was sent, field by field.
WantedArrives ==
  received # None => (Wanted(received.sent) => received.taken = received.sent.frame)

\* Of two frames that compete, exactly one wins the arbitration, and never the one of the
\* lower transfer priority.
ArbitrationDecides ==
  \A p, q \in pending : p # q =>
    /\ priorityHigherThan(p.can, q.can) # priorityHigherThan(q.can, p.can)
    /\ p.frame.prio < q.frame.prio => priorityHigherThan(p.can, q.can)
=============================================================================
