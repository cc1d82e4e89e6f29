---------------------------- MODULE MCDeviceSync ----------------------------
(* Two devices and three changes: of the two of one device the later has the *)
(* higher priority, and the other device's clock lies between them.          *)
EXTENDS DeviceSync

MCDevice == {"desktop", "phone"}
MCField == {"title", "body"}
MCChange ==
    [c1 |-> [by |-> "desktop", clock |-> 1, priority |-> 2, partition |-> "personal",
             fields |-> {"title", "body"}],
     c2 |-> [by |-> "phone", clock |-> 2, priority |-> 4, partition |-> "personal",
             fields |-> {"title"}],
     c3 |-> [by |-> "desktop", clock |-> 3, priority |-> 0, partition |-> "personal",
             fields |-> {"body"}]]
MCGranted == [d \in MCDevice |-> {"personal"}]
=============================================================================
