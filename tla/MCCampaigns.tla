----------------------------- MODULE MCCampaigns -----------------------------
(* One pairing session, the Controller's own disk and machines that can    *)
(* get another product or another disk.                                    *)
EXTENDS Campaigns

MCRole == [a \in Agents |-> IF a = "t" THEN "target" ELSE "generator"]

MCPlainMixes == {{"disk-standard"}, {"disk-standard", "disk-quick"}, {"network-peer-standard"}}

MCMembers == <<"t", "g">>

MCProfiles == [s \in Suites |-> IF s = "storage" THEN {"disk-quick", "disk-standard"}
                                ELSE {"network-peer-standard"}]

Small == [provider |-> "p", trusted |-> TRUE, sku |-> "small", region |-> "r", zone |-> "z1",
          os |-> "o", disk |-> "ext4"]
Large == [Small EXCEPT !.sku = "large"]
Reformatted == [Small EXCEPT !.disk = "xfs"]

MCSystems == {Small, Large, Reformatted}
MCInitial == [m \in Machines |-> IF m = "g2" THEN Large ELSE Small]
=============================================================================
