----------------------------- MODULE Addresses -----------------------------
(***************************************************************************)
(* How an address and a port get from the kernel's socket into the name of *)
(* a flow.  The probes copy skc_daddr and skc_dport as they lie in memory, *)
(* most significant octet first (tracer.bpf.c:91-94); reader.go reads them *)
(* as little-endian numbers, takes the address apart again and swaps the   *)
(* port.  An address is a tuple of four octets.                            *)
(***************************************************************************)
EXTENDS Integers, Sequences

Octet == 0 .. 255
Port  == 0 .. 65535

\* A port as it lies in skc_dport.
InMemory(port) == <<port \div 256, port % 256>>

\* binary.Read with binary.LittleEndian, of the fields uint32 and uint16.
Uint32(m) == m[1] + 256 * m[2] + 65536 * m[3] + 16777216 * m[4]
Uint16(m) == m[1] + 256 * m[2]

\* net.IPv4(byte(w), byte(w>>8), byte(w>>16), byte(w>>24)).
IPv4(w) == <<w % 256, (w \div 256) % 256,
             (w \div 65536) % 256, (w \div 16777216) % 256>>

\* (v >> 8) | (v << 8), on 16 bits.
SwapUint16(v) == (v \div 256) + ((v * 256) % 65536)

\* A CIDR block: its base, and how many values its mask leaves to each octet.
Block(base, spans) == [base |-> base, spans |-> spans]

privateBlocks ==
    {Block(<<10, 0, 0, 0>>,    <<1, 256, 256, 256>>),   \* 10.0.0.0/8
     Block(<<172, 16, 0, 0>>,  <<1, 16, 256, 256>>),    \* 172.16.0.0/12
     Block(<<192, 168, 0, 0>>, <<1, 1, 256, 256>>),     \* 192.168.0.0/16
     Block(<<127, 0, 0, 0>>,   <<1, 256, 256, 256>>)}   \* 127.0.0.0/8

\* IPNet.Contains: base and address agree where the mask does not let go.
Contains(block, ip) ==
    \A i \in 1..4 :
      ip[i] \div block.spans[i] = block.base[i] \div block.spans[i]

\* Mutant: 172.16.0.0/12 taken for one 16-bit block.
ClassifyNarrow(ip) ==
    IF \/ \E block \in privateBlocks : block.base[1] # 172 /\ Contains(block, ip)
       \/ ip[1] = 172 /\ ip[2] = 16
    THEN "internal"
    ELSE "external"

\* An address made by IPv4 always parses, so that it is never "unknown".
Classify(ip) ==
    IF \E block \in privateBlocks : Contains(block, ip)
    THEN "internal"
    ELSE "external"
=============================================================================
