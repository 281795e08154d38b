---------------------------- MODULE MCUploadSession ----------------------------
(* Instances of UploadSession for TLC. *)
EXTENDS UploadSession, TLC

\* A difference VHD with a region of its own, one in place of the base's, and
\* the base's regions, and the other kinds.
AllVhds ==
  {v \in Vhds : v.own # {} /\ (v.kind # "difference" => v.base = {} /\ ~v.baseMd5)}

\* A process that ends with its first error, or one that goes on for a while
\* with -f, without an MD5 of the base, and is given no base that it should not have.  A fixed VHD, whose footer is not
\* compared, is uploaded with -f.
SomeOptions ==
  [v \in AllVhds |->
     {o \in Options : /\ v.kind = "fixed" => o.force
                      /\ o.wrongBase => v.kind # "difference"
                      /\ o.telemetry => o.force /\ ~v.baseMd5 /\ ~o.wrongBase}]

NoBlob ==
  [exists |-> FALSE, sameSize |-> FALSE,
   content |-> [region \in Regions |-> None], md5 |-> None]

\* The blob of another file.
OtherBlobs ==
  {b \in Blobs : /\ b.exists
                 /\ b.content[Footer] = Other
                 /\ \A region \in DataRegions : b.content[region] \in {None, Other}
                 /\ b.md5 \in {None, Other}}

AnyBlob == {NoBlob} \cup OtherBlobs

\* Any two data regions are alike.
Symmetry == Permutations(DataRegions)

===============================================================================
