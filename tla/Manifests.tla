----------------------------- MODULE Manifests -----------------------------
(* The manifests of app/engine/c2pa_wrapper.py: what a row refers to and what *)
(* is on the disk of the running deployment.                                  *)
EXTENDS Integers

CONSTANT NoManifest

VARIABLE disk        \* manifests/<uuid>.c2pa: whose manifest, and whether all of it

ManifestInit == disk = <<>>

\* open(ref_path, "wb"): the file is there, and empty.
OpenFile(reference, content) ==
    LET file == [of |-> content, whole |-> FALSE] IN
    disk' = [u \in DOMAIN disk \cup {reference.uuid} |->
                IF u = reference.uuid THEN file ELSE disk[u]]

\* f.write, to the end.
WriteFile(reference) == disk' = [disk EXCEPT ![reference.uuid].whole = TRUE]

\* What validate_reference may return: as much as there is of the file, nothing
\* for a URL or a file that is missing, and nothing if reading fails.
ValidateReference(reference) ==
    LET there == reference.kind = "path" /\ reference.uuid \in DOMAIN disk
    IN {NoManifest} \cup IF there THEN {disk[reference.uuid]} ELSE {}

\* A deployment starts from its image, with an empty directory.
Reprovision == disk' = <<>>

=============================================================================
