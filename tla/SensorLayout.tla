---------------------------- MODULE SensorLayout ----------------------------
(***************************************************************************)
(* The array of sensors that rank 0 broadcasts with a derived MPI datatype *)
(* (mpi/src/sim.c, define_sensor_dt and the MPI_Bcast of `sensors').       *)
(*                                                                         *)
(* Memory is counted in 8-byte words, on a machine with 8-byte pointers.   *)
(* A sensor_t is {char *id; float x, y; double noise_mw}: three words.     *)
(***************************************************************************)
EXTENDS Integers

\* sizeof(sensor_t), and the word of each of its fields.
SensorWords == 3
IdWord      == 0
XYWord      == 1
NoiseWord   == 2

\* The displacements that define_sensor_dt gives to MPI_Type_create_struct:
\* x and y share a word, `id' is not described.
Displacements == {XYWord, NoiseWord}

LowerBound == CHOOSE w \in Displacements : \A v \in Displacements : w <= v
UpperBound == 1 + CHOOSE w \in Displacements : \A v \in Displacements : v <= w

\* MPI's extent of the datatype: from its first to its last byte.  Element k
\* of a message of such elements lies k extents after the buffer's start.
Extent == UpperBound - LowerBound

\* The words of the array that a broadcast of n elements copies.
BcastWords(n) == {k * Extent + d : k \in 0 .. n - 1, d \in Displacements}

\* Sensor j's position is among the words that the broadcast of n copies.
Replicated(n, j) == j * SensorWords + XYWord \in BcastWords(n)
=============================================================================
