------------------------------ MODULE MCMcpServer ------------------------------
(* Lines of every kind in orders that fill the queue, overflow a frame at its start and end,
   and leave the last line without its newline. *)
EXTENDS McpServer, TLC

Line(size, kind) == [size |-> size, kind |-> kind, tool |-> "none", args |-> << >>]
CallOf(size, tool, args) == [size |-> size, kind |-> "call", tool |-> tool, args |-> args]

MCLines ==
    << CallOf(2, "guard", [reference |-> "npm:pkg", promoteTo |-> "inside", force |-> "boolean"]),
       CallOf(1, "guard", [reference |-> "inside", promoteTo |-> "outside"]),
       CallOf(2, "triage", [lockfilePath |-> "inside", auto |-> "allow"]),
       CallOf(1, "lockfileAudit", [lockfilePath |-> "inside", outputFormat |-> "json"]),
       CallOf(1, "triage", [lockfilePath |-> "inside", deep |-> "boolean"]),
       CallOf(1, "audit", [sourceFiles |-> "null"]),
       CallOf(1, "audit", [sourceFiles |-> "array", packageName |-> "number"]),
       Line(5, "ping"), Line(1, "ping"), Line(1, "notification"), Line(1, "garbage"), Line(0, "blank"),
       CallOf(1, "audit", [sourceFiles |-> "object"]) >>
MCBytes == [t \in Tasks |-> MCLines[t].size]
MCOrders ==
    { <<1, 3, 4, 9>>, <<8, 10, 4, 1>>, <<11, 8, 2, 12>>, <<4, 5, 7, 9, 6, 2>>, <<13, 4, 3>>, <<3, 8>> }
================================================================================
