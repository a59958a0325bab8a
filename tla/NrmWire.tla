------------------------------ MODULE NrmWire -------------------------------
(***************************************************************************)
(* Objects on the wire (src/messages.c): how the library turns an object   *)
(* into a protobuf message, the message into frames, and back, on the way  *)
(* a registration takes.  A client adds an object, the daemon builds its   *)
(* own from the request and answers with it, the client brings its object  *)
(* up to date from the answer, and another client builds a third one from  *)
(* a list.  An event goes to the daemon and from there to the listeners.   *)
(***************************************************************************)
EXTENDS NrmScopes, Integers

CONSTANTS
    Me, Other,      \* identities of the two clients' sockets, strings
    Topic,          \* the topic events are published under
    NsPerSec,       \* 1000000000
    Crafted         \* the objects a client creates

NoId == "NULL"      \* a NULL clientid

(* Objects. *)

Ascending(q) == \A i, j \in DOMAIN q : i < j => q[i] <= q[j]

\* What the functions that create objects make: the choices of an actuator
\* are sorted, a time has less than a second of nanoseconds.
IsObject(o) ==
    \/ /\ o.kind \in {"SENSOR", "SLICE"}
       /\ o = [kind |-> o.kind, uuid |-> o.uuid]
    \/ /\ o.kind = "SCOPE"
       /\ o = [kind |-> "SCOPE", uuid |-> o.uuid, maps |-> o.maps]
       /\ o.maps \in [Types -> Bitmap]
    \/ /\ o.kind = "ACTUATOR"
       /\ o = [kind |-> "ACTUATOR", uuid |-> o.uuid, clientid |-> o.clientid,
               value |-> o.value, type |-> o.type, data |-> o.data]
       /\ \/ o.type = "DISCRETE" /\ o.data \in Seq(Int) /\ Ascending(o.data)
          \/ o.type = "CONTINUOUS" /\ o.data \in Int \X Int
    \/ /\ o.kind = "EVENT"
       /\ o = [kind |-> "EVENT", uuid |-> o.uuid, maps |-> o.maps,
               time |-> [sec |-> o.time.sec, nsec |-> o.time.nsec],
               value |-> o.value]
       /\ o.maps \in [Types -> Bitmap]
       /\ o.time.sec \in Nat /\ o.time.nsec \in 0..NsPerSec - 1

ASSUME WireAssumption ==
    /\ NsPerSec \in Nat \ {0}
    /\ Me # Other /\ Me # NoId
    /\ \A o \in Crafted : IsObject(o)

\* qsort: the place of an element is the number of those before it.
Sorted(choices) ==
    LET before(i) == {j \in DOMAIN choices :
                        choices[j] < choices[i] \/ (choices[j] = choices[i] /\ j < i)}
    IN  [k \in DOMAIN choices |->
            choices[CHOOSE i \in DOMAIN choices : Cardinality(before(i)) = k - 1]]

\* Without choices the call fails and leaves those the actuator has.
nrm_actuator_discrete_set_choices(a, choices) ==
    IF choices = << >> THEN a
    ELSE [a EXCEPT !.data = Sorted(choices)]

nrm_actuator_continuous_set_limits(a, min, max) == [a EXCEPT !.data = <<min, max>>]

nrm_actuator_create(uuid, type) ==
    [kind |-> "ACTUATOR", uuid |-> uuid, clientid |-> NoId, value |-> 0,
     type |-> type,
     data |-> IF type = "DISCRETE" THEN << >> ELSE <<0, 0>>]

nrm_time_tons(t) == t.nsec + NsPerSec * t.sec
nrm_time_fromns(ns) == [sec |-> ns \div NsPerSec, nsec |-> ns % NsPerSec]

(* From objects to messages. *)

nrm_msg_actuator_discrete_new(a) == [choices |-> a.data]
nrm_msg_actuator_continuous_new(a) == [lmin |-> a.data[1], lmax |-> a.data[2]]

nrm_msg_actuator_new(a) ==
    [uuid |-> a.uuid, clientid |-> a.clientid, value |-> a.value,
     type |-> a.type,
     data |-> IF a.type = "DISCRETE" THEN nrm_msg_actuator_discrete_new(a)
                                     ELSE nrm_msg_actuator_continuous_new(a)]

nrm_msg_scope_new(maps) ==
    [cpus |-> nrm_bitmap_to_array(maps["cpu"]),
     numas |-> nrm_bitmap_to_array(maps["numa"]),
     gpus |-> nrm_bitmap_to_array(maps["gpu"])]

\* A series of one event, as nrm_client_send_event and nrm_server_publish
\* make them.
nrm_msg_timeserie_new(e) ==
    [uuid |-> e.uuid, scope |-> nrm_msg_scope_new(e.maps),
     time |-> nrm_time_tons(e.time), value |-> e.value]

\* Sensors and slices are their uuid.
nrm_msg_new(o) ==
    [target |-> o.kind,
     body   |-> CASE o.kind = "ACTUATOR" -> nrm_msg_actuator_new(o)
                  [] o.kind = "SCOPE"    -> [uuid |-> o.uuid,
                                             scope |-> nrm_msg_scope_new(o.maps)]
                  [] o.kind = "EVENT"    -> nrm_msg_timeserie_new(o)
                  [] OTHER               -> [uuid |-> o.uuid]]

(* From messages to frames. *)

\* What protobuf unpacks from what it packed: a string field that was NULL
\* is not sent, and reads as the empty string.
Unpacked(m) ==
    IF m.target = "ACTUATOR" /\ m.body.clientid = NoId
      THEN [m EXCEPT !.body.clientid = ""] ELSE m

Frame(kind, data) == [kind |-> kind, data |-> data]
nrm_msg_push_packed_frames(zm, m) ==
    zm \o <<Frame("empty", ""), Frame("packed", m)>>
nrm_msg_push_identity(zm, id) == Append(zm, Frame("identity", id))
nrm_msg_push_topic(zm, topic) == Append(zm, Frame("topic", topic))

\* The first frame is the empty one, as nrm_msg_pop_packed_frames asserts.
WellFramed(zm) == Len(zm) = 2 /\ zm[1].kind = "empty" /\ zm[2].kind = "packed"
nrm_msg_pop_packed_frames(zm) == Unpacked(zm[2].data)
nrm_msg_pop_identity(zm) == Head(zm).data

\* A ROUTER puts the sender's identity in front of what it receives, and
\* takes the receiver's off what it sends.
RouterReceives(zm, from) == <<Frame("identity", from)>> \o zm
RouterSends(zm) == Tail(zm)

(* From messages to objects. *)

\* nrm_actuator_create_frommsg, and the rest of nrm_actuator_update_frommsg.
Described(a, b) ==
    LET c == [a EXCEPT !.uuid = b.uuid, !.value = b.value,
                       !.clientid = IF b.clientid # NoId THEN b.clientid ELSE @]
    IN  IF b.type = "DISCRETE"
        THEN nrm_actuator_discrete_set_choices(c, b.data.choices)
        ELSE nrm_actuator_continuous_set_limits(c, b.data.lmin, b.data.lmax)

nrm_actuator_create_frommsg(b) ==
    Described(nrm_actuator_create(b.uuid, b.type), b)
nrm_actuator_update_frommsg(a, b) == Described(a, b)

nrm_scope_create_frommsg(s) ==
    [t \in Types |-> nrm_bitmap_from_array(
        CASE t = "cpu" -> s.cpus [] t = "numa" -> s.numas [] t = "gpu" -> s.gpus)]

Create(m) ==
    CASE m.target = "ACTUATOR" -> nrm_actuator_create_frommsg(m.body)
      [] m.target = "SCOPE"    -> [kind |-> "SCOPE", uuid |-> m.body.uuid,
                                   maps |-> nrm_scope_create_frommsg(m.body.scope)]
      [] m.target = "EVENT"    -> [kind |-> "EVENT", uuid |-> m.body.uuid,
                                   maps |-> nrm_scope_create_frommsg(m.body.scope),
                                   time |-> nrm_time_fromns(m.body.time),
                                   value |-> m.body.value]
      [] OTHER                 -> [kind |-> m.target, uuid |-> m.body.uuid]

\* The update of a sensor or a slice changes nothing.
Update(o, m) ==
    CASE o.kind = "ACTUATOR" -> nrm_actuator_update_frommsg(o, m.body)
      [] o.kind = "SCOPE"    -> [o EXCEPT !.maps =
                                    nrm_scope_create_frommsg(m.body.scope)]
      [] OTHER               -> o

-----------------------------------------------------------------------------

VARIABLES
    crafted,    \* the object as the client's caller made it
    own,        \* the client's object
    stored,     \* the daemon's
    listed,     \* the other client's
    frames,     \* the frames under way
    leg         \* how far they are

wirevars == <<crafted, own, stored, listed, frames, leg>>

WireInit ==
    /\ crafted \in Crafted
    /\ own = crafted
    /\ stored = crafted /\ listed = crafted
    /\ frames = << >>
    /\ leg = "crafted"

\* nrm_client_add_* and nrm_client_send_event: nrm_msg_send.
nrm_msg_send_own ==
    /\ leg = "crafted"
    /\ frames' = RouterReceives(nrm_msg_push_packed_frames(<< >>, nrm_msg_new(own)), Me)
    /\ leg' = "request"
    /\ UNCHANGED <<crafted, own, stored, listed>>

\* nrm_msg_recvfrom, then nrm_server_add_callback: the object belongs to the
\* identity the request came from, and goes back there.
nrm_server_add ==
    /\ leg = "request" /\ crafted.kind # "EVENT"
    /\ LET id == nrm_msg_pop_identity(frames)
           o  == Create(nrm_msg_pop_packed_frames(Tail(frames)))
           s  == IF o.kind = "ACTUATOR" THEN [o EXCEPT !.clientid = id] ELSE o
       IN  /\ stored' = s
           /\ frames' = RouterSends(nrm_msg_push_packed_frames(
                            nrm_msg_push_identity(<< >>, id), nrm_msg_new(s)))
    /\ leg' = "reply"
    /\ UNCHANGED <<crafted, own, listed>>

\* nrm_msg_recv in the client's broker, the update in the caller.
nrm_client_updates ==
    /\ leg = "reply"
    /\ own' = Update(own, nrm_msg_pop_packed_frames(frames))
    /\ frames' = << >>
    /\ leg' = "registered"
    /\ UNCHANGED <<crafted, stored, listed>>

\* The other client's list, of one object.
nrm_server_list ==
    /\ leg = "registered"
    /\ frames' = RouterSends(nrm_msg_push_packed_frames(
                     nrm_msg_push_identity(<< >>, Other), nrm_msg_new(stored)))
    /\ leg' = "list"
    /\ UNCHANGED <<crafted, own, stored, listed>>

\* nrm_server_events_callback and nrm_server_publish: the daemon makes a new
\* series of the event it unrolled.
nrm_server_publish ==
    /\ leg = "request" /\ crafted.kind = "EVENT"
    /\ LET e == Create(nrm_msg_pop_packed_frames(Tail(frames)))
       IN  /\ stored' = e
           /\ frames' = nrm_msg_push_packed_frames(
                            nrm_msg_push_topic(<< >>, Topic), nrm_msg_new(e))
    /\ leg' = "publication"
    /\ UNCHANGED <<crafted, own, listed>>

\* What the other client builds, from a list or from a publication; the
\* topic that nrm_msg_sub takes off is not looked at.
nrm_client_creates ==
    /\ leg \in {"list", "publication"}
    /\ LET zm == IF leg = "publication" THEN Tail(frames) ELSE frames
       IN  listed' = Create(nrm_msg_pop_packed_frames(zm))
    /\ frames' = << >>
    /\ leg' = "listed"
    /\ UNCHANGED <<crafted, own, stored>>

WireNext ==
    \/ nrm_msg_send_own
    \/ nrm_server_add
    \/ nrm_client_updates
    \/ nrm_server_list
    \/ nrm_server_publish
    \/ nrm_client_creates

\* An object but for the client it belongs to.
Content(o) == IF o.kind = "ACTUATOR" THEN [o EXCEPT !.clientid = NoId] ELSE o

(* What the daemon, the listeners and the other clients hold is what the   *)
(* first client made: every word of a scope's bitmaps, every choice and    *)
(* limit of an actuator, the time of an event.  The registration does not  *)
(* change the client's own object but for its clientid, which is then the  *)
(* identity of the client's own socket wherever the object is: the daemon  *)
(* sends commands there (src/server.c:53).  Each receiver finds the empty  *)
(* frame where src/messages.c:821 asserts it.                              *)
ObjectSurvivesMessage ==
    /\ \A o \in {own, stored, listed} : Content(o) = Content(crafted)
    /\ leg \in {"registered", "list"} /\ crafted.kind = "ACTUATOR" =>
           own.clientid = Me /\ stored.clientid = Me
    /\ leg = "listed" /\ crafted.kind = "ACTUATOR" => listed.clientid = Me
    /\ leg \in {"request", "publication"} => WellFramed(Tail(frames))
    /\ leg \in {"reply", "list"} => WellFramed(frames)
=============================================================================
