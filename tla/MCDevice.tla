------------------------------ MODULE MCDevice ------------------------------
(***************************************************************************)
(* The flags that MbimDevice is opened with in the runs of TLC.            *)
(***************************************************************************)
EXTENDS MbimDevice

Flags(proxy, mbimex) == [proxy |-> proxy, mbimex |-> mbimex]

\* Opened on the character device, and with the extensions agreed on
DirectFlags == {Flags(FALSE, "none"), Flags(FALSE, "v2")}

\* Opened through the proxy, and with extensions that cannot be agreed on
ProxyFlags == {Flags(TRUE, "none"), Flags(FALSE, "both")}

\* Opened through the proxy only: the chain of requests is at its shortest
PlainProxyFlags == {Flags(TRUE, "none")}

AllFlags == DirectFlags \cup ProxyFlags
=============================================================================
