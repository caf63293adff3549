------------------------------ MODULE MCRWLock ------------------------------
(* Instance of RWLock for TLC: the pool's lock, and two locks of one order. *)
EXTENDS RWLock, TLC

CONSTANTS t1, t2, sessions, send, octree

ThreeLocks == {sessions, send, octree}

\* SessionManager::m_rwLock, Session::m_sendLock and Octree::m_lock.
Orders == (sessions :> 0) @@ (send :> 1) @@ (octree :> 1)

=============================================================================
