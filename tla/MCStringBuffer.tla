--------------------------- MODULE MCStringBuffer ---------------------------
EXTENDS StringBuffer

\* A buffer that has grown several times.
MaxCapacity == 40
CapacityBound == capacity <= MaxCapacity /\ len <= MaxCapacity

=============================================================================
