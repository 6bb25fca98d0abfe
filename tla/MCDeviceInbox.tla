---------------------------- MODULE MCDeviceInbox ----------------------------
EXTENDS DeviceInbox
Slot(r, s, t) == [revision |-> r, state |-> s, task |-> t]
Event(i, y, t, s, v) == [id |-> i, type |-> y, task |-> t, slot |-> s, inventory |-> v]
Uplink(i, q, a, e) == [id |-> i, seq |-> q, sentAt |-> a, event |-> e]

Made == Event("e1", "task.succeeded", "t1", Slot(1, "OCCUPIED", "t1"), 1)
Taken == Event("e2", "pickup.collected", "t1", Slot(2, "EMPTY", "t1"), 0)
Overdue == Event("e3", "pickup.overdue", "t9", Slot(3, "NEEDS_CHECK", "t9"), 0)
Remade == Event("e1", "task.recovered", "t1", Slot(2, "OCCUPIED", "t1"), 2)

\* A cup is made and taken, a slot reports a task that no order knows, and a
\* device contradicts itself: message a and event e1 with a second content, slot
\* revision 2 with a second state, sequence number 2 used twice.
Contradicting ==
    {Uplink("a", 1, 1, Made), Uplink("b", 2, 1, Taken), Uplink("c", 3, 1, Overdue),
     Uplink("a", 2, 1, Remade)}
=============================================================================
