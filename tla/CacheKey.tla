------------------------------ MODULE CacheKey ------------------------------
(***************************************************************************)
(* The name of the cache entry of a project directory and a branch         *)
(* (src/status/cache_key.rs).  Absorbing one field after another is        *)
(* absorbing their bytes in one stream, so a digest is a function of that  *)
(* stream; which one, FNV-1a, is left open.                                *)
(***************************************************************************)
EXTENDS Naturals, Sequences

CONSTANTS
    Bytes,        \* the bytes a field is made of
    Digits,       \* the bytes a decimal number is made of
    Colon,        \* the byte that ends a frame
    MaxLen,       \* bound: length of a field
    Decimal,      \* a length in ASCII decimal
    Fnv(_)        \* FNV-1a of a stream, from the offset basis

\* A decimal has no colon in it, and says which number it is the decimal of.
ASSUME CacheKeyAssumption ==
    /\ MaxLen \in Nat
    /\ Digits \subseteq Bytes /\ Colon \in Bytes \ Digits
    /\ Decimal \in [0..MaxLen -> Seq(Digits)]
    /\ \A m, n \in 0..MaxLen : Decimal[m] = Decimal[n] => m = n

Fields == {f \in Seq(Bytes) : Len(f) <= MaxLen}

\* Faulty variant: fields are absorbed without their lengths.
AbsorbUnframed(stream, field) == stream \o field

\* absorb_field: the frame, then the field.
AbsorbField(stream, field) ==
    stream \o Decimal[Len(field)] \o <<Colon>> \o field

\* The bytes that digest absorbs, the project directory first.
Absorbed(projectDir, branch) == AbsorbField(AbsorbField(<<>>, projectDir), branch)

\* pr_cache_path.
CachePath(cacheDir, projectDir, branch) ==
    <<cacheDir, Fnv(Absorbed(projectDir, branch))>>
=============================================================================
