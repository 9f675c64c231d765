---------------------------- MODULE MCMqnicProbe ----------------------------
(* Small instances of MqnicProbe: one interface.  The list of the device   *)
(* and that of the interface take turns at being anything at all; offset 6 *)
(* is not aligned.                                                         *)
EXTENDS MqnicProbe

Block(type, next, reg) == [type |-> type, next |-> next, reg |-> reg]

PlainDevice == (0 :> Block("FW_ID", 4, 0)) @@ (4 :> Block("IF", 0, 1))
PlainInterface ==
    (4 :> Block("IF_CTRL", 8, 1)) @@ (8 :> Block("PORT", 0, 12))
        @@ (12 :> Block("PORT_CTRL", 0, 0))

AnyDevice ==
    [{0, 4, 8} -> {Block(b[1], b[2], 1) : b \in {"FW_ID", "IF"} \X {0, 4, 6, 8}}]

(* Blocks at 4, 8 and 12 are anything, that at 16 is what a port needs *)
AnyInterface ==
    {f @@ (16 :> Block("PORT_CTRL", 0, 0)) :
        f \in [{4, 8, 12} -> {Block(b[1], b[2], b[3]) :
            b \in {<<"IF_CTRL", n, 2>> : n \in {0, 8}}
                \union ({"PORT"} \X {0, 4, 8, 12} \X {4, 16})
                \union ({"PORT_CTRL"} \X {0, 6} \X {0})}]}

SmallDevices ==
    {(0 :> d) @@ (1 :> PlainInterface) : d \in AnyDevice}
        \union {(0 :> PlainDevice) @@ (1 :> i) : i \in AnyInterface}

NeededTypes == {"IF_CTRL"}
=============================================================================
