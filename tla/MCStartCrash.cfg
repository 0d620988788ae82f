\* Expected to violate StartNeverCrashes (README, section 3).
SPECIFICATION Spec
INVARIANT StartNeverCrashes
